---- MODULE Spec2Model ----
(***************************************************************************)
(* Model of the inference adapter (generateText with its fallback chain    *)
(* and credential lookup), of the CV match analyzer, the job description   *)
(* analyzer, the question generator and the route handlers of the job      *)
(* application helper, and of its client side: the generation and CV data  *)
(* slices, the generation page, handleProceedAfterAnalysis of the CV input *)
(* page and the Q&A page.                                                  *)
(*                                                                         *)
(* generateText is an async function: it is modelled as a stack of frames  *)
(* (the recursion for a fallback model pushes a frame), each frame moving  *)
(* through the positions of the code between two awaits.                   *)
(***************************************************************************)
EXTENDS Integers, Sequences, FiniteSets, TLC

VARIABLES env, primary, stack, requests, inflight, result,
          cvInput, cvPc, cvResponse, cvResult,
          qInput, qPc, qResponse, qResult,
          hRoute, hRequest, hPc, hJobAnalysis, hCvMatch, hCVInfo, hQuestions,
          hReply, hAdapterCalls, hParser,
          generation, gPc, gInput,
          pPc, pInput, qaSession,
          cvData, cvStored, cvLast,
          qa

gtVars == <<env, primary, stack, requests, inflight, result>>
cvVars == <<cvInput, cvPc, cvResponse, cvResult>>
qVars == <<qInput, qPc, qResponse, qResult>>
hVars == <<hRoute, hRequest, hPc, hJobAnalysis, hCvMatch, hCVInfo, hQuestions,
           hReply, hAdapterCalls, hParser>>
gVars == <<generation, gPc, gInput>>
pVars == <<pPc, pInput, qaSession>>
cVars == <<cvData, cvStored, cvLast>>
uiVars == <<pPc, pInput, qaSession, cvData, cvStored, cvLast, qa>>
vars == <<env, primary, stack, requests, inflight, result,
          cvInput, cvPc, cvResponse, cvResult,
          qInput, qPc, qResponse, qResult,
          hRoute, hRequest, hPc, hJobAnalysis, hCvMatch, hCVInfo, hQuestions,
          hReply, hAdapterCalls, hParser,
          generation, gPc, gInput,
          pPc, pInput, qaSession,
          cvData, cvStored, cvLast,
          qa>>

(***************************************************************************)
(* Model identifiers (HUGGINGFACE_MODELS).                                 *)
(***************************************************************************)
CV_GENERATION == "meta-llama/Meta-Llama-3.1-8B-Instruct"
FALLBACK == "mistralai/Mistral-7B-Instruct-v0.2"
ALTERNATIVE_FALLBACK == "mistralai/Mistral-7B-Instruct-v0.1"
LAST_RESORT == "microsoft/Phi-3-mini-4k-instruct"
\* The value of HUGGINGFACE_MODELS.GLM_FLASH is not part of the sources; the
\* identifier the service names in its comments and requests is used.
GLM_FLASH == "zai-org/GLM-4.7-Flash"
\* A caller-supplied identifier outside the configured ones, with none of the
\* conversational markers in its name.
PLAIN_MODEL == "gpt2"

\* The models a caller passes to generateText.
PrimaryModels == {CV_GENERATION, PLAIN_MODEL, FALLBACK}

\* fallbackModels of generateText's catch block, in list order.
fallbackModels == <<GLM_FLASH, FALLBACK, ALTERNATIVE_FALLBACK, LAST_RESORT>>

InList(list, m) == \E i \in 1..Len(list) : list[i] = m

\* The identifier every chatCompletion / textGeneration request carries.
RequestModel(model) == "zai-org/GLM-4.7-Flash"

\* The substrings of the conversational test that occur in each identifier
\* (String.prototype.includes is case-sensitive).
MarkersIn(model) ==
  CASE model = CV_GENERATION -> {"Llama", "meta-llama", "Instruct"}
    [] model = FALLBACK -> {"mistralai", "Mistral", "Instruct"}
    [] model = ALTERNATIVE_FALLBACK -> {"mistralai", "Mistral", "Instruct"}
    [] model = LAST_RESORT -> {"instruct"}
    [] model = GLM_FLASH -> {"GLM"}
    [] OTHER -> {}

ConversationalMarkers ==
  {"mistralai", "Mistral", "llama", "Llama", "meta-llama", "GLM", "glm",
   "Qwen", "qwen", "chat", "instruct", "Instruct"}

requiresConversational(model) == MarkersIn(model) \cap ConversationalMarkers # {}

(***************************************************************************)
(* Credential lookup.                                                      *)
(***************************************************************************)
EnvNames == <<"HUGGINGFACE_API_TOKEN", "NEXT_PUBLIC_HUGGINGFACE_API_TOKEN",
              "HF_TOKEN", "HF_API_TOKEN">>

\* process.env[name] is undefined when the variable is not set.
Undefined == "<undefined>"
EnvValues == {Undefined, "", "hf_A", "hf_B"}

\* JavaScript truthiness of an environment value.
Truthy(v) == v # Undefined /\ v # ""

\* a || b
Or(a, b) == IF Truthy(a) THEN a ELSE b

\* a ?? b
Nullish(a, b) == IF a # Undefined THEN a ELSE b

\* getHfClient with ?? in place of ||: an empty value is not skipped.
getHfClient_nullish(e) ==
  Nullish(Nullish(Nullish(e["HUGGINGFACE_API_TOKEN"],
                          e["NEXT_PUBLIC_HUGGINGFACE_API_TOKEN"]),
                  e["HF_TOKEN"]),
          e["HF_API_TOKEN"])

\* getHfClient: the token the InferenceClient is constructed with.
getHfClient(e) ==
  Or(Or(Or(e["HUGGINGFACE_API_TOKEN"], e["NEXT_PUBLIC_HUGGINGFACE_API_TOKEN"]),
        e["HF_TOKEN"]),
     e["HF_API_TOKEN"])

(***************************************************************************)
(* Values returned or thrown by a generateText frame.                      *)
(***************************************************************************)
NoValue == [kind |-> "none", text |-> "", err |-> "", named |-> <<>>, hints |-> {}]
TextValue(t) == [kind |-> "text", text |-> t, err |-> "", named |-> <<>>, hints |-> {}]
ErrorValue(e) == [kind |-> "error", text |-> "", err |-> e, named |-> <<>>, hints |-> {}]

\* The topics of the four numbered sections of diagnosticMessage.
DiagnosticHints == {"inference providers", "api token", "model availability",
                    "common solutions"}

\* diagnosticMessage without the "Model: ${model}" line.
diagnosticMessage_noModel(model) ==
  [kind |-> "error", text |-> "", err |-> "diagnostic",
   named |-> <<>>, hints |-> DiagnosticHints]

\* diagnosticMessage: the only identifier interpolated is ${model}.
diagnosticMessage(model) ==
  [kind |-> "error", text |-> "", err |-> "diagnostic",
   named |-> <<model>>, hints |-> DiagnosticHints]

\* What the provider can answer to one request.
Texts == {"", "text A", "text B"}
ProviderError == "InferenceClientProviderApiError"
OtherError == "other"
EmptyError == "Model returned empty response"
Outcomes == {[kind |-> "text", text |-> t] : t \in Texts}
              \cup {[kind |-> "error", text |-> e] : e \in {ProviderError, OtherError}}

\* isProviderError that misses the error class of the inference client.
isProviderError_missesClass(e) == e.err = "diagnostic"

\* isProviderError of the catch block (by class, by name, or by a message
\* that contains 'ProviderApiError', as the diagnostic message does).
isProviderError(e) == e.err \in {ProviderError, "diagnostic"}

(***************************************************************************)
(* generateText frames.                                                    *)
(***************************************************************************)
Frame(model) == [model |-> model, pc |-> "start", token |-> Undefined,
                 fb |-> 0, ret |-> NoValue]

Top == stack[Len(stack)]
SetTop(f) == [stack EXCEPT ![Len(stack)] = f]

Pending == [kind |-> "pending", text |-> ""]

\* The request object handed to client.chatCompletion / client.textGeneration.
Request(frame) ==
  [model |-> RequestModel(frame.model), attempt |-> frame.model,
   conversational |-> requiresConversational(frame.model),
   token |-> frame.token, outcome |-> Pending]

\* The request is not awaited: the frame is free to send again.
AfterSend_noAwait(frame) == [frame EXCEPT !.pc = "send"]

\* The frame once the request has been handed to the client: it awaits.
AfterSend(frame) == [frame EXCEPT !.pc = "await"]

\* The try block after the await: the value returned, or the error thrown.
TryBody(conversational, o) ==
  IF o.kind = "error" THEN ErrorValue(o.text)
  ELSE IF conversational
       THEN IF o.text # "" THEN TextValue(o.text) ELSE ErrorValue(EmptyError)
       ELSE TextValue(o.text)

\* The catch block with a loop that misses the first fallback model.
Catch_skipsFirst(frame, v) ==
  IF v.kind = "text" THEN [frame EXCEPT !.ret = v, !.pc = "done"]
  ELSE IF isProviderError(v)
       THEN IF ~InList(fallbackModels, frame.model)
            THEN [frame EXCEPT !.pc = "loop", !.fb = 2]
            ELSE [frame EXCEPT !.ret = diagnosticMessage(frame.model), !.pc = "done"]
       ELSE [frame EXCEPT !.ret = v, !.pc = "done"]

\* The catch block without the fallbackModels.includes(model) guard.
Catch_noGuard(frame, v) ==
  IF v.kind = "text" THEN [frame EXCEPT !.ret = v, !.pc = "done"]
  ELSE IF isProviderError(v)
       THEN [frame EXCEPT !.pc = "loop", !.fb = 1]
       ELSE [frame EXCEPT !.ret = v, !.pc = "done"]

\* The catch block up to its first await (or its throw).
Catch(frame, v) ==
  IF v.kind = "text" THEN [frame EXCEPT !.ret = v, !.pc = "done"]
  ELSE IF isProviderError(v)
       THEN IF ~InList(fallbackModels, frame.model)
            THEN [frame EXCEPT !.pc = "loop", !.fb = 1]
            ELSE [frame EXCEPT !.ret = diagnosticMessage(frame.model), !.pc = "done"]
       ELSE [frame EXCEPT !.ret = v, !.pc = "done"]

\* The loop that does not move on after a failed fallback.
AfterFallback_hangs(frame, v) ==
  IF v.kind = "text" THEN [frame EXCEPT !.ret = v, !.pc = "done"]
  ELSE [frame EXCEPT !.pc = "awaitFallback"]

\* The loop without its return: a successful fallback does not stop it.
AfterFallback_noReturn(frame, v) ==
  [frame EXCEPT !.fb = frame.fb + 1, !.pc = "loop"]

\* The for loop after the awaited generateText(prompt, fallbackModel, ...)
\* has settled with value v: return on success, continue on error.
AfterFallback(frame, v) ==
  IF v.kind = "text" THEN [frame EXCEPT !.ret = v, !.pc = "done"]
  ELSE [frame EXCEPT !.fb = frame.fb + 1, !.pc = "loop"]

(***************************************************************************)
(* Strings of the CV analyzer, as sequences of one-character strings.      *)
(***************************************************************************)
Whitespace == {" ", "\n", "\t"}
UpperCase == <<"A","B","C","D","E","F","G","H","I","J","K","L","M",
               "N","O","P","Q","R","S","T","U","V","W","X","Y","Z">>
LowerCase == <<"a","b","c","d","e","f","g","h","i","j","k","l","m",
               "n","o","p","q","r","s","t","u","v","w","x","y","z">>
Digits == {"0","1","2","3","4","5","6","7","8","9"}
\* \w of a regular expression
WordChars == {UpperCase[i] : i \in 1..26} \cup {LowerCase[i] : i \in 1..26}
               \cup Digits \cup {"_"}

Max(a, b) == IF a >= b THEN a ELSE b
\* Math.min that answers its second argument.
Min_second(a, b) == b

Min(a, b) == IF a <= b THEN a ELSE b

toLowerChar(c) ==
  IF \E i \in 1..26 : UpperCase[i] = c
  THEN LowerCase[CHOOSE i \in 1..26 : UpperCase[i] = c]
  ELSE c

\* String.prototype.toLowerCase
toLowerCase(str) == [i \in 1..Len(str) |-> toLowerChar(str[i])]

\* String.prototype.includes
includes(str, search) ==
  \E p \in 0..(Len(str) - Len(search)) :
    \A k \in 1..Len(search) : str[p + k] = search[k]

\* str.split(/\s+/), as the set of its pieces: the maximal runs without
\* whitespace, and the empty piece that a leading or trailing separator (or
\* the empty string) yields.
splitWhitespace(str) ==
  LET starts == {i \in 1..Len(str) :
                   str[i] \notin Whitespace /\ (i = 1 \/ str[i - 1] \in Whitespace)}
      endOf(i) == CHOOSE j \in i..Len(str) :
                    /\ j = Len(str) \/ str[j + 1] \in Whitespace
                    /\ \A k \in i..j : str[k] \notin Whitespace
  IN {SubSeq(str, i, endOf(i)) : i \in starts}
       \cup (IF Len(str) = 0 \/ str[1] \in Whitespace \/ str[Len(str)] \in Whitespace
             THEN {<<>>} ELSE {})

\* w.replace(/[^\w]/g, '')
RECURSIVE stripNonWord(_)
stripNonWord(w) ==
  IF w = <<>> THEN <<>>
  ELSE IF Head(w) \in WordChars THEN <<Head(w)>> \o stripNonWord(Tail(w))
       ELSE stripNonWord(Tail(w))

\* new Set(text.toLowerCase().split(/\s+/).filter(w => w.length > 4)
\*           .map(w => w.replace(/[^\w]/g, '')))
keywordSet(text) ==
  {stripNonWord(w) : w \in {x \in splitWhitespace(toLowerCase(text)) : Len(x) > 4}}

\* calculateKeywordOverlap, as the fraction num / den (0 / 1 when the job
\* description has no keyword).
calculateKeywordOverlap(cvContent, jobDescription) ==
  LET cvWords == keywordSet(cvContent)
      jobWords == keywordSet(jobDescription)
      matches == Cardinality({w \in jobWords : w \in cvWords})
  IN IF Cardinality(jobWords) > 0
     THEN [num |-> matches, den |-> Cardinality(jobWords)]
     ELSE [num |-> 0, den |-> 1]

\* Math.floor in the place of Math.round.
Round_floor(n, d) == n \div d

\* Math.round of the non-negative fraction n / d
Round(n, d) == (2 * n + d) \div (2 * d)

\* generateRecommendations
generateRecommendations(missingSkills, missingRequirements) ==
  LET r1 == IF Len(missingSkills) > 0
            THEN <<[about |-> "Highlight experience with",
                    items |-> SubSeq(missingSkills, 1, Min(3, Len(missingSkills)))]>>
            ELSE <<>>
      r2 == IF Len(missingRequirements) > 0
            THEN <<[about |-> "Address requirement",
                    items |-> <<missingRequirements[1]>>]>>
            ELSE <<>>
  IN IF r1 \o r2 = <<>>
     THEN <<[about |-> "CV looks well-matched", items |-> <<>>]>>
     ELSE r1 \o r2

\* The bonus and the clamp, with the bonus granted to a CV of any length.
bonusAndClamp_anyLength(score, cvLength) ==
  Max(0, Min(100, Min(100, score + 5)))

\* The bonus for a detailed CV and the final clamp of calculateBasicMatch.
bonusAndClamp(score, cvLength) ==
  LET withBonus == IF cvLength > 500 THEN Min(100, score + 5) ELSE score
  IN Max(0, Min(100, withBonus))

\* calculateBasicMatch
calculateBasicMatch(cvContent, jobDescription, jobAnalysis) ==
  LET cvLower == toLowerCase(cvContent)
      keySkills == jobAnalysis.keySkills
      keyRequirements == jobAnalysis.keyRequirements
      skillFound(skill) == includes(cvLower, toLowerCase(skill))
      hasMatch(req) ==
        \E word \in {w \in splitWhitespace(toLowerCase(req)) : Len(w) > 4} :
          includes(cvLower, word)
      matchedSkills == SelectSeq(keySkills, LAMBDA sk : skillFound(sk))
      missingSkills == SelectSeq(keySkills, LAMBDA sk : ~skillFound(sk))
      matchedRequirements == SelectSeq(keyRequirements, LAMBDA rq : hasMatch(rq))
      missingRequirements == SelectSeq(keyRequirements, LAMBDA rq : ~hasMatch(rq))
      totalSkills == Max(1, Len(keySkills))
      totalRequirements == Max(1, Len(keyRequirements))
      keywordOverlap == calculateKeywordOverlap(cvContent, jobDescription)
      \* skillScore + requirementScore + keywordScore over one denominator
      den == totalSkills * totalRequirements * keywordOverlap.den
      num == 40 * Len(matchedSkills) * totalRequirements * keywordOverlap.den
               + 40 * Len(matchedRequirements) * totalSkills * keywordOverlap.den
               + 20 * keywordOverlap.num * totalSkills * totalRequirements
  IN [source |-> "heuristic",
      matchScore |-> bonusAndClamp(Round(num, den), Len(cvContent)),
      matchedSkills |-> matchedSkills,
      missingSkills |-> missingSkills,
      matchedRequirements |-> matchedRequirements,
      missingRequirements |-> missingRequirements,
      semanticGaps |-> SubSeq(missingRequirements, 1, Min(5, Len(missingRequirements))),
      recommendations |-> generateRecommendations(missingSkills, missingRequirements)]

(***************************************************************************)
(* Inputs of analyzeCVMatch.                                               *)
(***************************************************************************)
\* "Python react"
CvShort ==
  <<"P","y","t","h","o","n"," ","r","e","a","c","t">>
\* "javascript developer, kubernetes"
CvDetailed ==
  <<"j","a","v","a","s","c","r","i","p","t"," ","d","e","v","e","l","o","p",
    "e","r",","," ","k","u","b","e","r","n","e","t","e","s">>
\* "sales manager retail"
CvOther ==
  <<"s","a","l","e","s"," ","m","a","n","a","g","e","r"," ","r","e","t","a",
    "i","l">>
\* "Python developer wanted"
JobPython ==
  <<"P","y","t","h","o","n"," ","d","e","v","e","l","o","p","e","r"," ","w",
    "a","n","t","e","d">>
\* "go c++ sql"
JobNoKeyword ==
  <<"g","o"," ","c","+","+"," ","s","q","l">>
\* "Developer, kubernetes!"
JobKubernetes ==
  <<"D","e","v","e","l","o","p","e","r",","," ","k","u","b","e","r","n","e",
    "t","e","s","!">>
\* "Java"
SkillJava ==
  <<"J","a","v","a">>
\* "PYTHON"
SkillPython ==
  <<"P","Y","T","H","O","N">>
\* "React"
SkillReact ==
  <<"R","e","a","c","t">>
\* "Golang"
SkillGo ==
  <<"G","o","l","a","n","g">>
\* "5 yrs exp"
ReqShortWords ==
  <<"5"," ","y","r","s"," ","e","x","p">>
\* "Strong Python skills"
ReqPython ==
  <<"S","t","r","o","n","g"," ","P","y","t","h","o","n"," ","s","k","i","l",
    "l","s">>
\* "Kubernetes experience"
ReqKubernetes ==
  <<"K","u","b","e","r","n","e","t","e","s"," ","e","x","p","e","r","i","e",
    "n","c","e">>
\* " lorem"
FillerUnit ==
  <<" ","l","o","r","e","m">>

\* Length of the text appended to make a CV longer than the bonus threshold.
FillerLen == 504
Filler == [i \in 1..FillerLen |-> FillerUnit[((i - 1) % Len(FillerUnit)) + 1]]

\* A CV of exactly 500 characters, the longest that earns no bonus.
CvAtThreshold == SubSeq(CvDetailed \o Filler, 1, 500)

CvContents ==
  {<<>>, CvShort, CvOther, CvAtThreshold, CvOther \o Filler, CvDetailed \o Filler}
JobDescriptions == {JobPython, JobNoKeyword, JobKubernetes}
KeySkillLists == {<<>>, <<SkillJava>>, <<SkillPython, SkillReact, SkillGo>>}
KeyRequirementLists == {<<>>, <<ReqKubernetes>>, <<ReqShortWords, ReqPython, ReqKubernetes>>}

(***************************************************************************)
(* What generateText hands to analyzeCVMatch: an error, or a text.  A text *)
(* is described by what the extraction makes of it: whether /\{[\s\S]*\}/  *)
(* matches, whether JSON.parse accepts the match, and the object parsed.   *)
(***************************************************************************)
\* JSON values of the matchScore property (numbers as integers).
JNumber(n) == [type |-> "number", num |-> n]
JString == [type |-> "string", num |-> 0]
JNull == [type |-> "object", num |-> 0]
JMissing == [type |-> "undefined", num |-> 0]
MatchScoreValues ==
  {JNumber(n) : n \in {-1, 0, 73, 100, 101, 150}} \cup {JString, JNull, JMissing}

\* A list property of the model's JSON: an array, or not there.
JArray(items) == [defined |-> TRUE, items |-> items]
JAbsent == [defined |-> FALSE, items |-> <<>>]

\* The list properties the model's JSON carries: all of them, or none.
SomeList == JArray(<<SkillReact>>)
ParsedObject(score, withLists) ==
  [matchScore |-> score,
   matchedSkills |-> IF withLists THEN SomeList ELSE JAbsent,
   missingSkills |-> IF withLists THEN SomeList ELSE JAbsent,
   matchedRequirements |-> IF withLists THEN SomeList ELSE JAbsent,
   missingRequirements |-> IF withLists THEN SomeList ELSE JAbsent,
   semanticGaps |-> IF withLists THEN SomeList ELSE JAbsent,
   recommendations |-> IF withLists THEN SomeList ELSE JAbsent]

NoObject == ParsedObject(JMissing, FALSE)
CVResponses ==
  {[kind |-> "error", braces |-> FALSE, parses |-> FALSE, object |-> NoObject],
   [kind |-> "text", braces |-> FALSE, parses |-> FALSE, object |-> NoObject],
   [kind |-> "text", braces |-> TRUE, parses |-> FALSE, object |-> NoObject]}
  \cup {[kind |-> "text", braces |-> TRUE, parses |-> TRUE,
         object |-> ParsedObject(sc, wl)] : sc \in MatchScoreValues, wl \in BOOLEAN}

\* x || []
OrEmpty(x) == IF x.defined THEN x.items ELSE <<>>

\* typeof matchScore === 'number' && matchScore >= 0 && matchScore <= 100,
\* ignoring the type.
validMatchScore_noRange(v) == v.type = "number"

\* typeof parsed.matchScore === 'number' && parsed.matchScore >= 0 &&
\* parsed.matchScore <= 100
validMatchScore(v) == v.type = "number" /\ v.num >= 0 /\ v.num <= 100

\* The parsed object once its arrays are ensured.
ensureArrays(parsed) ==
  [source |-> "model",
   matchScore |-> parsed.matchScore.num,
   matchedSkills |-> OrEmpty(parsed.matchedSkills),
   missingSkills |-> OrEmpty(parsed.missingSkills),
   matchedRequirements |-> OrEmpty(parsed.matchedRequirements),
   missingRequirements |-> OrEmpty(parsed.missingRequirements),
   semanticGaps |-> OrEmpty(parsed.semanticGaps),
   recommendations |-> OrEmpty(parsed.recommendations)]

\* analyzeCVMatch once generateText has settled with response r.
analyzeCVMatchResult(in, r) ==
  IF r.kind = "text" /\ r.braces /\ r.parses /\ validMatchScore(r.object.matchScore)
  THEN ensureArrays(r.object)
  ELSE calculateBasicMatch(in.cvContent, in.jobDescription, in.jobAnalysis)

(***************************************************************************)
(* Actions of analyzeCVMatch.                                              *)
(***************************************************************************)
NoResponse == [kind |-> "none", braces |-> FALSE, parses |-> FALSE, object |-> NoObject]
NoAnalysis ==
  [source |-> "none", matchScore |-> 0, matchedSkills |-> <<>>,
   missingSkills |-> <<>>, matchedRequirements |-> <<>>,
   missingRequirements |-> <<>>, semanticGaps |-> <<>>, recommendations |-> <<>>]

\* The prompt is built and generateText(analysisPrompt, ...) is called.
CVCallGenerateText ==
  /\ cvPc = "start"
  /\ cvPc' = "awaitText"
  /\ UNCHANGED <<cvInput, cvResponse, cvResult>>

\* generateText settles with r; the response is parsed or the heuristic runs.
CVSettle(r) ==
  /\ cvPc = "awaitText"
  /\ cvResponse' = r
  /\ cvResult' = analyzeCVMatchResult(cvInput, r)
  /\ cvPc' = "done"
  /\ UNCHANGED cvInput

(***************************************************************************)
(* Actions of generateText.                                                *)
(***************************************************************************)
\* const client = getHfClient()
Enter ==
  /\ stack # <<>> /\ Top.pc = "start"
  /\ stack' = SetTop([Top EXCEPT !.token = getHfClient(env), !.pc = "send"])
  /\ UNCHANGED <<env, primary, requests, inflight, result>>

\* client.chatCompletion({...}) or client.textGeneration({...}) is called.
Send ==
  /\ stack # <<>> /\ Top.pc = "send"
  /\ requests' = Append(requests, Request(Top))
  /\ inflight' = inflight + 1
  /\ stack' = SetTop(AfterSend(Top))
  /\ UNCHANGED <<env, primary, result>>

\* The awaited request settles with outcome o.
Complete(o) ==
  /\ stack # <<>> /\ Top.pc = "await"
  /\ requests' = [requests EXCEPT ![Len(requests)].outcome = o]
  /\ inflight' = inflight - 1
  /\ stack' = SetTop(Catch(Top, TryBody(requiresConversational(Top.model), o)))
  /\ UNCHANGED <<env, primary, result>>

\* The loop calls generateText(prompt, fallbackModel, maxLength).
TryFallback ==
  /\ stack # <<>> /\ Top.pc = "loop" /\ Top.fb <= Len(fallbackModels)
  /\ stack' = Append(SetTop([Top EXCEPT !.pc = "awaitFallback"]),
                     Frame(fallbackModels[Top.fb]))
  /\ UNCHANGED <<env, primary, requests, inflight, result>>

\* The loop is over: throw new Error(diagnosticMessage).
Exhausted ==
  /\ stack # <<>> /\ Top.pc = "loop" /\ Top.fb > Len(fallbackModels)
  /\ stack' = SetTop([Top EXCEPT !.ret = diagnosticMessage(Top.model), !.pc = "done"])
  /\ UNCHANGED <<env, primary, requests, inflight, result>>

\* A fallback call settles and its value reaches the loop of the caller.
ReturnToLoop ==
  /\ Len(stack) > 1 /\ Top.pc = "done"
  /\ stack' = [SubSeq(stack, 1, Len(stack) - 1)
                 EXCEPT ![Len(stack) - 1] = AfterFallback(stack[Len(stack) - 1], Top.ret)]
  /\ UNCHANGED <<env, primary, requests, inflight, result>>

\* The outermost call settles: the caller of generateText gets the value.
ReturnToCaller ==
  /\ Len(stack) = 1 /\ Top.pc = "done"
  /\ result' = Top.ret
  /\ stack' = <<>>
  /\ UNCHANGED <<env, primary, requests, inflight>>

(***************************************************************************)
(* The question generator (generateQuestionsFromAnalysis and its fallback  *)
(* generateDefaultQuestions).  A question is its id, type and priority;    *)
(* the id `q-${n}` is <<"q", n>> and `q-${Date.now()}-${index}` is         *)
(* <<"q", now, index>>.                                                    *)
(***************************************************************************)
QuestionType == {"personal_info", "experience", "education", "skills",
                 "certifications", "languages", "summary"}
Priority == {"high", "medium", "low"}

Question(id, type, priority) == [id |-> id, type |-> type, priority |-> priority]

\* extractedCVInfo as generateDefaultQuestions reads it: undefined, or its
\* four flags.
NoCVInfo == [defined |-> FALSE, hasPersonalInfo |-> FALSE, hasExperience |-> FALSE,
             hasSkills |-> FALSE, hasEducation |-> FALSE]
CVInfos == {NoCVInfo} \cup
  [defined : {TRUE}, hasPersonalInfo : BOOLEAN, hasExperience : BOOLEAN,
   hasSkills : BOOLEAN, hasEducation : BOOLEAN]

\* cvMatch as generateDefaultQuestions reads it: undefined, or the number of
\* its missing skills.
CVMatches == {[defined |-> FALSE, missingSkills |-> 0],
              [defined |-> TRUE, missingSkills |-> 0],
              [defined |-> TRUE, missingSkills |-> 2]}

\* extractedCVInfo?.flag
Flag(info, name) == info.defined /\ info[name]

\* while (questions.length < 10) questions.push({ id: `q-${questions.length + 1}`, ... })
RECURSIVE padToTen(_)
padToTen(questions) ==
  IF Len(questions) < 10
  THEN padToTen(Append(questions,
                       Question(<<"q", Len(questions) + 1>>, "experience", "medium")))
  ELSE questions

\* questions.slice(0, 15)
sliceFifteen(questions) == SubSeq(questions, 1, Min(15, Len(questions)))

\* generateDefaultQuestions that asks for the personal details whatever the
\* CV holds.
generateDefaultQuestions_alwaysPersonal(cvMatch, info) ==
  LET q0 == <<Question(<<"q", 1>>, "personal_info", "high")>>
      q1 == Append(q0, Question(<<"q", Len(q0) + 1>>, "experience", "high"))
      q4 == q1 \o <<Question(<<"q", Len(q1) + 1>>, "experience", "high"),
                    Question(<<"q", 7>>, "summary", "high")>>
  IN sliceFifteen(padToTen(q4))

\* generateDefaultQuestions
generateDefaultQuestions(cvMatch, info) ==
  LET q0 == IF ~Flag(info, "hasPersonalInfo")
            THEN <<Question(<<"q", 1>>, "personal_info", "high")>>
            ELSE <<>>
      \* both branches on hasExperience push an experience question
      q1 == Append(q0, Question(<<"q", Len(q0) + 1>>, "experience", "high"))
      q2 == IF ~Flag(info, "hasSkills")
            THEN Append(q1, Question(<<"q", Len(q1) + 1>>, "skills", "high"))
            ELSE IF cvMatch.defined /\ cvMatch.missingSkills > 0
                 THEN Append(q1, Question(<<"q", Len(q1) + 1>>, "skills", "high"))
                 ELSE q1
      q3 == IF ~Flag(info, "hasEducation")
            THEN Append(q2, Question(<<"q", Len(q2) + 1>>, "education", "medium"))
            ELSE q2
      additionalQuestions ==
        <<Question(<<"q", Len(q3) + 1>>, "experience", "high"),
          Question(<<"q", 7>>, "summary", "high")>>
  IN sliceFifteen(padToTen(q3 \o additionalQuestions))

\* The objects of the JSON array the model answers with (type and priority
\* are whatever the model wrote; Undefined when it left the property out).
Item(type, priority) == [type |-> type, priority |-> priority]
GoodItem == Item("experience", "high")
OtherGoodItem == Item("certifications", "low")
UnknownTypeItem == Item("achievements", "high")
NoPriorityItem == Item("skills", Undefined)

\* Length of the longest array the model answers with.
MaxParsed == 16
ParsedArrays ==
  {<<>>,
   <<GoodItem, OtherGoodItem>>,
   [i \in 1..12 |-> IF i % 2 = 0 THEN GoodItem ELSE OtherGoodItem],
   [i \in 1..MaxParsed |-> GoodItem],
   [i \in 1..10 |-> IF i = 3 THEN UnknownTypeItem ELSE GoodItem],
   [i \in 1..10 |-> IF i = 10 THEN NoPriorityItem ELSE OtherGoodItem]}

\* What generateText hands to generateQuestionsFromAnalysis: an error, or a
\* text in which /\[[\s\S]*\]/ matches or not and which JSON.parse accepts
\* (as the array) or not.
QResponses ==
  {[kind |-> "error", brackets |-> FALSE, parses |-> FALSE, array |-> <<>>],
   [kind |-> "text", brackets |-> FALSE, parses |-> FALSE, array |-> <<>>],
   [kind |-> "text", brackets |-> TRUE, parses |-> FALSE, array |-> <<>>]}
  \cup {[kind |-> "text", brackets |-> TRUE, parses |-> TRUE, array |-> a] :
          a \in ParsedArrays}

\* Values of Date.now() (two instants, far above any question count)
Clock == {1700000000, 1700000001}

\* parsed.map((q, index) => ({ ...q, id: `q-${Date.now()}-${index}` }))
mapParsed(parsed, now) ==
  [i \in 1..Len(parsed) |->
     Question(<<"q", now, i - 1>>, parsed[i].type, parsed[i].priority)]

\* generateQuestionsFromAnalysis once generateText has settled with r.
generateQuestionsFromAnalysis(in, r, now) ==
  IF r.kind = "text" /\ r.brackets /\ r.parses
  THEN mapParsed(r.array, now)
  ELSE generateDefaultQuestions(in.cvMatch, in.extractedCVInfo)

NoQResponse == [kind |-> "none", brackets |-> FALSE, parses |-> FALSE, array |-> <<>>]
NoQInput == [cvMatch |-> [defined |-> FALSE, missingSkills |-> 0],
             extractedCVInfo |-> NoCVInfo]

\* The prompt is built and generateText(prompt, ...) is called.
QCallGenerateText ==
  /\ qPc = "start"
  /\ qPc' = "awaitText"
  /\ UNCHANGED <<qInput, qResponse, qResult>>

\* generateText settles with r: the array is parsed or the fallback runs.
QSettle(r, now) ==
  /\ qPc = "awaitText"
  /\ qResponse' = r
  /\ qResult' = generateQuestionsFromAnalysis(qInput, r, now)
  /\ qPc' = "done"
  /\ UNCHANGED qInput

QInit ==
  /\ qInput \in [cvMatch : CVMatches, extractedCVInfo : CVInfos]
  /\ qPc = "start"
  /\ qResponse = NoQResponse
  /\ qResult = <<>>

\* The question generator is not running.
QIdle ==
  /\ qInput = NoQInput /\ qPc = "idle" /\ qResponse = NoQResponse /\ qResult = <<>>

QNext ==
  \/ QCallGenerateText
  \/ \E r \in QResponses, now \in Clock : QSettle(r, now)

(***************************************************************************)
(* The job description analyzer.                                           *)
(***************************************************************************)
\* str.split(sep) for a one-character separator
RECURSIVE splitOn(_, _)
splitOn(str, sep) ==
  IF \E i \in 1..Len(str) : str[i] = sep
  THEN LET i == CHOOSE k \in 1..Len(str) :
                  str[k] = sep /\ \A j \in 1..(k - 1) : str[j] # sep
       IN <<SubSeq(str, 1, i - 1)>> \o splitOn(SubSeq(str, i + 1, Len(str)), sep)
  ELSE <<str>>

\* the string without its leading whitespace (what a leading \s* or \s+ of a
\* pattern leaves)
trimStart(str) ==
  IF \E i \in 1..Len(str) : str[i] \notin Whitespace
  THEN SubSeq(str, CHOOSE i \in 1..Len(str) :
                     str[i] \notin Whitespace
                       /\ \A j \in 1..(i - 1) : str[j] \in Whitespace,
              Len(str))
  ELSE <<>>

\* String.prototype.trim
trim(str) ==
  LET t == trimStart(str)
  IN IF t = <<>> THEN <<>>
     ELSE SubSeq(t, 1, CHOOSE i \in 1..Len(t) :
                         t[i] \notin Whitespace
                           /\ \A j \in (i + 1)..Len(t) : t[j] \in Whitespace)

\* extractRequirements.  A line is listed when it starts with a list mark
\* (- or *; the source also accepts the bullet sign, which no text here
\* contains) or with a number and a dot, or contains 'required' or
\* 'must have'; the mark is removed and the line trimmed.
extractRequirements(text) ==
  LET lines == splitOn(text, "\n")
      \* /^\s*[-*]\s+/
      matchesBullet(line) ==
        LET t == trimStart(line)
        IN Len(t) >= 2 /\ t[1] \in {"-", "*"} /\ t[2] \in Whitespace
      stripBullet(line) ==
        IF matchesBullet(line) THEN trimStart(Tail(trimStart(line))) ELSE line
      leadingDigits(t) ==
        CHOOSE n \in 0..Len(t) :
          (\A k \in 1..n : t[k] \in Digits) /\ (n = Len(t) \/ t[n + 1] \notin Digits)
      \* /^\s*\d+\.\s+/
      matchesNumbered(line) ==
        LET t == trimStart(line)
            n == leadingDigits(t)
        IN n >= 1 /\ Len(t) >= n + 2 /\ t[n + 1] = "." /\ t[n + 2] \in Whitespace
      stripNumbered(line) ==
        IF matchesNumbered(line)
        THEN LET t == trimStart(line)
             IN trimStart(SubSeq(t, leadingDigits(t) + 2, Len(t)))
        ELSE line
      listed(line) ==
        \/ matchesBullet(line)
        \/ matchesNumbered(line)
        \/ includes(toLowerCase(line), <<"r","e","q","u","i","r","e","d">>)
        \/ includes(toLowerCase(line), <<"m","u","s","t"," ","h","a","v","e">>)
      cleaned(line) == trim(stripNumbered(stripBullet(line)))
      kept == SelectSeq(lines, LAMBDA l : listed(l) /\ Len(cleaned(l)) > 10)
      requirements == [i \in 1..Len(kept) |-> cleaned(kept[i])]
  IN SubSeq(requirements, 1, Min(10, Len(requirements)))

\* extractSkillsFromText
extractSkillsFromText(text) ==
  LET commonSkills ==
        <<<<"j","a","v","a","s","c","r","i","p","t">>,
          <<"p","y","t","h","o","n">>,
          <<"r","e","a","c","t">>,
          <<"n","o","d","e">>,
          <<"s","q","l">>,
          <<"a","w","s">>,
          <<"d","o","c","k","e","r">>,
          <<"k","u","b","e","r","n","e","t","e","s">>,
          <<"a","g","i","l","e">>,
          <<"s","c","r","u","m">>,
          <<"l","e","a","d","e","r","s","h","i","p">>,
          <<"c","o","m","m","u","n","i","c","a","t","i","o","n">>,
          <<"p","r","o","j","e","c","t"," ","m","a","n","a","g","e","m","e","n","t">>,
          <<"d","a","t","a"," ","a","n","a","l","y","s","i","s">>,
          <<"m","a","c","h","i","n","e"," ","l","e","a","r","n","i","n","g">>>>
      toUpperChar(c) ==
        IF \E i \in 1..26 : LowerCase[i] = c
        THEN UpperCase[CHOOSE i \in 1..26 : LowerCase[i] = c]
        ELSE c
      \* skill.charAt(0).toUpperCase() + skill.slice(1)
      capitalize(skill) == <<toUpperChar(Head(skill))>> \o Tail(skill)
      foundSkills ==
        SelectSeq(commonSkills, LAMBDA skill : includes(toLowerCase(text), skill))
  IN [i \in 1..Len(foundSkills) |-> capitalize(foundSkills[i])]

\* A JobAnalysis, described by its list fields (the scalar text fields are
\* left out); profile tells whether candidateProfile is there.
JobAnalysisOf(source, profile, keySkills, traits, values, keyRequirements, missing) ==
  [source |-> source, profile |-> profile, keySkills |-> keySkills,
   personalityTraits |-> traits, values |-> values,
   keyRequirements |-> keyRequirements, missingInfo |-> missing]

\* getBasicAnalysis
getBasicAnalysis(jobDescription) ==
  JobAnalysisOf("basic", TRUE, JArray(extractSkillsFromText(jobDescription)),
                JArray(<<>>), JArray(<<>>),
                JArray(extractRequirements(jobDescription)), JArray(<<>>))

\* parseAnalysisFromText, given what the keySkills and values patterns
\* captured in the text.
parseAnalysisFromText(r) ==
  LET \* capture.split(',').map(s => s.trim().replace(/"/g, ''))
      splitList(capture) ==
        LET pieces == splitOn(capture, ",")
        IN [i \in 1..Len(pieces) |->
              SelectSeq(trim(pieces[i]), LAMBDA c : c # "\"")]
  IN JobAnalysisOf("text", TRUE,
                   JArray(IF r.skillsMatch.defined THEN splitList(r.skillsMatch.items)
                          ELSE <<>>),
                   JArray(<<>>),
                   JArray(IF r.valuesMatch.defined THEN splitList(r.valuesMatch.items)
                          ELSE <<>>),
                   JArray(extractRequirements(r.text)), JArray(<<>>))

\* Texts of the requests and of the model's answers, and names of files.
Sample ==
  [\* "Must have docker\n- 5 years of python experience\n1. ok"
   jobBulleted |-> <<"M","u","s","t"," ","h","a","v","e"," ","d","o","c","k",
      "e","r","\n","-"," ","5"," ","y","e","a","r","s"," ","o","f"," ","p",
      "y","t","h","o","n"," ","e","x","p","e","r","i","e","n","c","e","\n",
      "1","."," ","o","k">>,
   \* "keySkills: ["Python", react]\n* Kubernetes experience\nvalues: [trust]"
   textWithLists |-> <<"k","e","y","S","k","i","l","l","s",":"," ","[","\"",
      "P","y","t","h","o","n","\"",","," ","r","e","a","c","t","]","\n","*",
      " ","K","u","b","e","r","n","e","t","e","s"," ","e","x","p","e","r",
      "i","e","n","c","e","\n","v","a","l","u","e","s",":"," ","[","t","r",
      "u","s","t","]">>,
   \* "Sorry, I cannot help"
   textPlain |-> <<"S","o","r","r","y",","," ","I"," ","c","a","n","n","o",
      "t"," ","h","e","l","p">>,
   \* ""Python", react"
   skillsCapture |-> <<"\"","P","y","t","h","o","n","\"",","," ","r","e","a",
      "c","t">>,
   \* "trust"
   valuesCapture |-> <<"t","r","u","s","t">>,
   \* " \n"
   blank |-> <<" ","\n">>,
   \* "cv.doc"
   cvDoc |-> <<"c","v",".","d","o","c">>,
   \* "CV.DOC"
   cvDocUpper |-> <<"C","V",".","D","O","C">>,
   \* "Resume.PDF"
   resumePdf |-> <<"R","e","s","u","m","e",".","P","D","F">>,
   \* "cv.docx"
   cvDocx |-> <<"c","v",".","d","o","c","x">>,
   \* "notes.txt"
   notesTxt |-> <<"n","o","t","e","s",".","t","x","t">>,
   \* "photo.png"
   photoPng |-> <<"p","h","o","t","o",".","p","n","g">>,
   \* ".pdf"
   pdf |-> <<".","p","d","f">>,
   \* ".docx"
   docx |-> <<".","d","o","c","x">>,
   \* ".txt"
   txt |-> <<".","t","x","t">>,
   \* ".doc"
   doc |-> <<".","d","o","c">>]

\* Objects the model can write: the whole format asked for, the format
\* without keyRequirements, and {"businessType": "Tech"} alone.
JobObject ==
  [full |-> JobAnalysisOf("model", TRUE, JArray(<<SkillPython, SkillReact>>),
                          JArray(<<>>), JArray(<<Sample.valuesCapture>>),
                          JArray(<<ReqPython>>), JArray(<<>>)),
   noRequirements |-> JobAnalysisOf("model", TRUE, JArray(<<SkillPython>>),
                                    JArray(<<>>), JArray(<<>>), JAbsent,
                                    JArray(<<>>)),
   sparse |-> JobAnalysisOf("model", FALSE, JAbsent, JAbsent, JAbsent, JAbsent,
                            JAbsent)]
NoJobAnalysis ==
  JobAnalysisOf("none", FALSE, JAbsent, JAbsent, JAbsent, JAbsent, JAbsent)

\* What generateText hands to analyzeJobDescription: an error, or a text
\* described by whether /\{[\s\S]*\}/ matches it, whether JSON.parse accepts
\* the match and the object parsed, and else by what the patterns of
\* parseAnalysisFromText capture in it.
JobResponse(kind, braces, parses, object, text, skillsMatch, valuesMatch) ==
  [kind |-> kind, braces |-> braces, parses |-> parses, object |-> object,
   text |-> text, skillsMatch |-> skillsMatch, valuesMatch |-> valuesMatch]
JobResponses ==
  {JobResponse("error", FALSE, FALSE, NoJobAnalysis, <<>>, JAbsent, JAbsent),
   JobResponse("text", FALSE, FALSE, NoJobAnalysis, Sample.textPlain, JAbsent,
               JAbsent),
   JobResponse("text", FALSE, FALSE, NoJobAnalysis, Sample.textWithLists,
               JArray(Sample.skillsCapture), JArray(Sample.valuesCapture)),
   JobResponse("text", TRUE, FALSE, NoJobAnalysis, <<>>, JAbsent, JAbsent)}
  \cup {JobResponse("text", TRUE, TRUE, JobObject[o], <<>>, JAbsent, JAbsent) :
          o \in DOMAIN JobObject}

\* analyzeJobDescription once generateText has settled with response r.
analyzeJobDescriptionResult(jobDescription, r) ==
  IF r.kind = "error" THEN getBasicAnalysis(jobDescription)
  ELSE IF r.braces
       THEN IF r.parses THEN r.object ELSE getBasicAnalysis(jobDescription)
       ELSE parseAnalysisFromText(r)

(***************************************************************************)
(* The route handlers (POST of /api/cv/analyze, /api/qa/generate-questions,*)
(* /api/cv/generate, /api/cv/parse-file and /api/cover-letter/generate).   *)
(* A request is the body as the handler reads it; a reply is the status    *)
(* and the success and error properties of the JSON answered.              *)
(***************************************************************************)
Routes == {"analyze", "questions", "generate", "parseFile", "coverLetter"}

\* A property of the JSON body that the handlers expect to be a string:
\* its typeof and, for a string, its text.
Field(type, str) == [type |-> type, str |-> str]

\* the negation of  !x || typeof x !== 'string'
requiredString(x) == x.type = "string" /\ x.str # <<>>

\* cvContent && typeof cvContent === 'string' && cvContent.trim().length > 0
nonBlankString(x) == x.type = "string" /\ Len(trim(x.str)) > 0

\* String.prototype.endsWith
endsWith(str, suffix) ==
  Len(str) >= Len(suffix)
    /\ SubSeq(str, Len(str) - Len(suffix) + 1, Len(str)) = suffix

\* The declared types POST /api/cv/parse-file compares file.type with.
MIME ==
  [pdf |-> "application/pdf",
   docx |-> "application/vnd.openxmlformats-officedocument.wordprocessingml.document",
   txt |-> "text/plain",
   doc |-> "application/msword"]

\* formData.get('file'): no file, or a file with its declared type and name
File(present, type, name) == [present |-> present, type |-> type, name |-> name]

\* The body of a request, with every property any handler reads.
RequestOf(readable, jobDescription, cvContent, cvDataText, jobAnalysis, cvMatch, file) ==
  [readable |-> readable, jobDescription |-> jobDescription,
   cvContent |-> cvContent, cvData |-> cvDataText, jobAnalysis |-> jobAnalysis,
   cvMatch |-> cvMatch, file |-> file]

\* Bodies sent to each route (none when no handler runs).
Requests ==
  LET missing == Field("undefined", <<>>)
      number == Field("number", <<>>)
      string(s) == Field("string", s)
      noMatch == [defined |-> FALSE, missingSkills |-> 0]
      noFile == File(FALSE, "", <<>>)
  IN [none |->
        {RequestOf(FALSE, missing, missing, missing, NoJobAnalysis, noMatch, noFile)},
      analyze |->
        {RequestOf(rd, jd, cv, missing, NoJobAnalysis, noMatch, noFile) :
           rd \in BOOLEAN,
           jd \in {missing, number, string(<<>>), string(JobPython),
                   string(Sample.jobBulleted)},
           cv \in {missing, number, string(CvShort), string(CvOther \o Filler)}},
      questions |->
        {RequestOf(rd, missing, cv, missing, ja, cm, noFile) :
           rd \in BOOLEAN,
           cv \in {missing, number, string(Sample.blank), string(CvShort)},
           ja \in {NoJobAnalysis, JobObject.full, JobObject.sparse,
                   getBasicAnalysis(Sample.jobBulleted)},
           cm \in CVMatches},
      generate |->
        {RequestOf(rd, jd, missing, cd, ja, noMatch, noFile) :
           rd \in BOOLEAN,
           jd \in {missing, number, string(<<>>), string(JobPython)},
           cd \in {missing, number, string(<<>>), string(CvShort)},
           ja \in {NoJobAnalysis, JobObject.full, JobObject.sparse}},
      parseFile |->
        {RequestOf(rd, missing, missing, missing, NoJobAnalysis, noMatch, f) :
           rd \in BOOLEAN,
           f \in {noFile} \cup
                 {File(TRUE, t, n) :
                    t \in {MIME[k] : k \in DOMAIN MIME} \cup {"image/png", ""},
                    n \in {Sample.cvDoc, Sample.cvDocUpper, Sample.resumePdf,
                           Sample.cvDocx, Sample.notesTxt, Sample.photoPng}}},
      coverLetter |->
        {RequestOf(rd, jd, missing, cd, NoJobAnalysis, noMatch, noFile) :
           rd \in BOOLEAN,
           jd \in {missing, string(JobPython)},
           cd \in {missing, number, string(CvShort)}}]

\* NextResponse.json({ success, error | data }, { status })
Reply(status, success, error, data) ==
  [status |-> status, success |-> success, error |-> error, data |-> data]
\* NextResponse.json({ success: true, data, message })
Ok(data) == Reply(200, TRUE, "", data)
\* A failure answered without its message.
Failure_noMessage(status, error) == Reply(status, FALSE, "", "none")
\* NextResponse.json({ success: false, error }, { status })
Failure(status, error) == Reply(status, FALSE, error, "none")

\* Messages of the replies, and of the errors thrown while a request is
\* processed.
Message ==
  [body |-> "Unexpected token in JSON",
   join |-> "Cannot read properties of undefined (reading 'join')",
   parser |-> "Failed to parse file: parser failed",
   inference |-> "InferenceClientProviderApiError: Failed to perform inference",
   noJobDescription |-> "Job description is required",
   noCvContent |-> "CV content is required",
   noJobAnalysis |-> "Job analysis is required",
   notStringJobDescription |-> "Job description is required and must be a string",
   notStringCvData |-> "CV data is required and must be a string",
   noFile |-> "No file provided",
   emptyFile |-> "File appears to be empty or could not be parsed. Please ensure the file contains text content.",
   legacyDoc |-> "Legacy .doc files are not supported. Please convert to .docx or PDF.",
   unsupportedType |-> "Unsupported file type",
   disabled |-> "Cover letter generation is temporarily disabled"]

(***************************************************************************)
(* Actions of the route handlers.                                          *)
(***************************************************************************)
\* return NextResponse.json(...)
Respond(reply) == hReply' = reply /\ hPc' = "done"

\* One more call of generateText is under way; the handler waits at pc.
CallAdapter(pc) ==
  hAdapterCalls' = hAdapterCalls + 1 /\ hPc' = pc /\ UNCHANGED hReply

\* Building the prompt of analyzeCVMatch throws a TypeError:
\* jobAnalysis.keyRequirements.join, jobAnalysis.candidateProfile.keySkills.join
cvMatchPromptThrows(ja) ==
  ~ja.keyRequirements.defined \/ ~ja.profile \/ ~ja.keySkills.defined

\* Building the prompt of generateQuestionsFromAnalysis throws a TypeError.
questionsPromptThrows(ja) ==
  \/ ~ja.profile \/ ~ja.keySkills.defined
  \/ ~ja.keyRequirements.defined \/ ~ja.values.defined

\* Building analysisContext in generateCV throws a TypeError.
generateCVThrows(ja) ==
  ja.source # "none" /\ (~ja.profile \/ ~ja.keySkills.defined)

\* POST /api/cv/analyze up to the call of analyzeJobDescription.
AnalyzePost ==
  /\ hRoute = "analyze" /\ hPc = "start"
  /\ IF ~hRequest.readable
     THEN Respond(Failure(500, Message.body)) /\ UNCHANGED hAdapterCalls
     ELSE IF ~requiredString(hRequest.jobDescription)
     THEN Respond(Failure(400, Message.noJobDescription))
            /\ UNCHANGED hAdapterCalls
     ELSE IF ~requiredString(hRequest.cvContent)
     THEN Respond(Failure(400, Message.noCvContent))
            /\ UNCHANGED hAdapterCalls
     ELSE CallAdapter("awaitJobAnalysis")
  /\ UNCHANGED <<hRoute, hRequest, hJobAnalysis, hCvMatch, hCVInfo, hQuestions,
                 hParser>>

\* analyzeJobDescription returns; analyzeCVMatch builds its prompt and calls
\* generateText, or the TypeError of the prompt reaches the catch of POST.
AnalyzeJobSettled(r) ==
  /\ hRoute = "analyze" /\ hPc = "awaitJobAnalysis"
  /\ hJobAnalysis' = analyzeJobDescriptionResult(hRequest.jobDescription.str, r)
  /\ IF cvMatchPromptThrows(hJobAnalysis')
     THEN Respond(Failure(500, Message.join)) /\ UNCHANGED hAdapterCalls
     ELSE CallAdapter("awaitCvMatch")
  /\ UNCHANGED <<hRoute, hRequest, hCvMatch, hCVInfo, hQuestions, hParser>>

\* analyzeCVMatch returns and POST answers with both analyses.
AnalyzeCVSettled(r) ==
  /\ hRoute = "analyze" /\ hPc = "awaitCvMatch"
  /\ hCvMatch' =
       analyzeCVMatchResult(
         [cvContent |-> hRequest.cvContent.str,
          jobDescription |-> hRequest.jobDescription.str,
          jobAnalysis |-> [keySkills |-> hJobAnalysis.keySkills.items,
                           keyRequirements |-> hJobAnalysis.keyRequirements.items]],
         r)
  /\ Respond(Ok("analysis"))
  /\ UNCHANGED <<hRoute, hRequest, hJobAnalysis, hCVInfo, hQuestions,
                 hAdapterCalls, hParser>>

\* generateQuestionsFromAnalysis up to its call of generateText.
QuestionsPrompt ==
  IF questionsPromptThrows(hRequest.jobAnalysis)
  THEN Respond(Failure(500, Message.join)) /\ UNCHANGED hAdapterCalls
  ELSE CallAdapter("awaitQuestions")

\* POST /api/qa/generate-questions up to its first call of generateText.
QuestionsPost ==
  /\ hRoute = "questions" /\ hPc = "start"
  /\ IF ~hRequest.readable
     THEN Respond(Failure(500, Message.body)) /\ UNCHANGED hAdapterCalls
     ELSE IF hRequest.jobAnalysis.source = "none"
     THEN Respond(Failure(400, Message.noJobAnalysis))
            /\ UNCHANGED hAdapterCalls
     ELSE IF nonBlankString(hRequest.cvContent)
     THEN CallAdapter("awaitCVInfo")
     ELSE QuestionsPrompt
  /\ UNCHANGED <<hRoute, hRequest, hJobAnalysis, hCvMatch, hCVInfo, hQuestions,
                 hParser>>

\* extractCVInfo returns (from the model's JSON or from extractBasicInfo).
QuestionsCVInfoSettled(info) ==
  /\ hRoute = "questions" /\ hPc = "awaitCVInfo"
  /\ info.defined
  /\ hCVInfo' = info
  /\ QuestionsPrompt
  /\ UNCHANGED <<hRoute, hRequest, hJobAnalysis, hCvMatch, hQuestions, hParser>>

\* generateQuestionsFromAnalysis returns and POST answers with the questions.
QuestionsSettled(r, now) ==
  /\ hRoute = "questions" /\ hPc = "awaitQuestions"
  /\ hQuestions' =
       generateQuestionsFromAnalysis(
         [cvMatch |-> hRequest.cvMatch, extractedCVInfo |-> hCVInfo], r, now)
  /\ Respond(Ok("questions"))
  /\ UNCHANGED <<hRoute, hRequest, hJobAnalysis, hCvMatch, hCVInfo,
                 hAdapterCalls, hParser>>

\* POST /api/cv/generate up to the call of generateText in generateCV.
GeneratePost ==
  /\ hRoute = "generate" /\ hPc = "start"
  /\ IF ~hRequest.readable
     THEN Respond(Failure(500, Message.body)) /\ UNCHANGED hAdapterCalls
     ELSE IF ~requiredString(hRequest.jobDescription)
     THEN Respond(Failure(400, Message.notStringJobDescription))
            /\ UNCHANGED hAdapterCalls
     ELSE IF ~requiredString(hRequest.cvData)
     THEN Respond(Failure(400, Message.notStringCvData))
            /\ UNCHANGED hAdapterCalls
     ELSE IF generateCVThrows(hRequest.jobAnalysis)
     THEN Respond(Failure(500, Message.join)) /\ UNCHANGED hAdapterCalls
     ELSE CallAdapter("awaitCV")
  /\ UNCHANGED <<hRoute, hRequest, hJobAnalysis, hCvMatch, hCVInfo, hQuestions,
                 hParser>>

\* generateCV returns the text, or its error reaches the catch of POST.
GenerateSettled(returns) ==
  /\ hRoute = "generate" /\ hPc = "awaitCV"
  /\ Respond(IF returns THEN Ok("cv") ELSE Failure(500, Message.inference))
  /\ UNCHANGED <<hRoute, hRequest, hJobAnalysis, hCvMatch, hCVInfo, hQuestions,
                 hAdapterCalls, hParser>>

\* The branch POST /api/cv/parse-file takes for a file, with the legacy
\* .doc branch taken by the declared type alone.
parserFor_typeOnly(file) ==
  LET fileType == file.type
      fileName == toLowerCase(file.name)
  IN IF fileType = MIME.pdf \/ endsWith(fileName, Sample.pdf) THEN "pdf"
     ELSE IF fileType = MIME.docx \/ endsWith(fileName, Sample.docx) THEN "mammoth"
     ELSE IF fileType = MIME.txt \/ endsWith(fileName, Sample.txt) THEN "txt"
     ELSE IF fileType = MIME.doc THEN "legacy"
     ELSE "unsupported"

\* The branch POST /api/cv/parse-file takes for a file: the parser it
\* invokes (parsePDF, mammoth, the text decoding) or the rejection.
parserFor(file) ==
  LET fileType == file.type
      fileName == toLowerCase(file.name)
  IN IF fileType = MIME.pdf \/ endsWith(fileName, Sample.pdf) THEN "pdf"
     ELSE IF fileType = MIME.docx \/ endsWith(fileName, Sample.docx) THEN "mammoth"
     ELSE IF fileType = MIME.txt \/ endsWith(fileName, Sample.txt) THEN "txt"
     ELSE IF fileType = MIME.doc \/ endsWith(fileName, Sample.doc) THEN "legacy"
     ELSE "unsupported"

\* POST /api/cv/parse-file up to the call of a parser.
ParseFilePost ==
  /\ hRoute = "parseFile" /\ hPc = "start"
  /\ IF ~hRequest.readable
     THEN Respond(Failure(500, Message.parser)) /\ UNCHANGED hParser
     ELSE IF ~hRequest.file.present
     THEN Respond(Failure(400, Message.noFile)) /\ UNCHANGED hParser
     ELSE IF parserFor(hRequest.file) = "legacy"
     THEN Respond(Failure(400, Message.legacyDoc)) /\ UNCHANGED hParser
     ELSE IF parserFor(hRequest.file) = "unsupported"
     THEN Respond(Failure(400, Message.unsupportedType)) /\ UNCHANGED hParser
     ELSE /\ hParser' = parserFor(hRequest.file)
          /\ hPc' = "awaitParser"
          /\ UNCHANGED hReply
  /\ UNCHANGED <<hRoute, hRequest, hJobAnalysis, hCvMatch, hCVInfo, hQuestions,
                 hAdapterCalls>>

\* The parser returns its text (o = "text"), returns no text ("blank") or
\* throws ("error").
ParserSettled(o) ==
  /\ hRoute = "parseFile" /\ hPc = "awaitParser"
  /\ Respond(CASE o = "error" -> Failure(500, Message.parser)
               [] o = "blank" -> Failure(400, Message.emptyFile)
               [] OTHER -> Ok("text"))
  /\ UNCHANGED <<hRoute, hRequest, hJobAnalysis, hCvMatch, hCVInfo, hQuestions,
                 hAdapterCalls, hParser>>

\* POST /api/cover-letter/generate as it is in the commented-out code: the
\* body is validated and the letter generated.
CoverLetterPost_enabled ==
  /\ hRoute = "coverLetter" /\ hPc = "start"
  /\ IF requiredString(hRequest.jobDescription) /\ requiredString(hRequest.cvData)
     THEN Respond(Ok("coverLetter")) /\ hAdapterCalls' = hAdapterCalls + 1
     ELSE Respond(Failure(400, Message.noJobDescription)) /\ UNCHANGED hAdapterCalls
  /\ UNCHANGED <<hRoute, hRequest, hJobAnalysis, hCvMatch, hCVInfo, hQuestions,
                 hParser>>

\* POST /api/cover-letter/generate
CoverLetterPost ==
  /\ hRoute = "coverLetter" /\ hPc = "start"
  /\ Respond(Failure(503, Message.disabled))
  /\ UNCHANGED <<hRoute, hRequest, hJobAnalysis, hCvMatch, hCVInfo, hQuestions,
                 hAdapterCalls, hParser>>

HInit ==
  /\ hRoute \in Routes
  /\ hRequest \in Requests[hRoute]
  /\ hPc = "start"
  /\ hJobAnalysis = NoJobAnalysis /\ hCvMatch = NoAnalysis
  /\ hCVInfo = NoCVInfo /\ hQuestions = <<>>
  /\ hReply = Reply(0, FALSE, "", "none") /\ hAdapterCalls = 0 /\ hParser = "none"

\* No handler is running.
HIdle ==
  /\ hRoute = "none" /\ hRequest \in Requests.none /\ hPc = "idle"
  /\ hJobAnalysis = NoJobAnalysis /\ hCvMatch = NoAnalysis
  /\ hCVInfo = NoCVInfo /\ hQuestions = <<>>
  /\ hReply = Reply(0, FALSE, "", "none") /\ hAdapterCalls = 0 /\ hParser = "none"

HNext ==
  \/ AnalyzePost
  \/ \E r \in JobResponses : AnalyzeJobSettled(r)
  \/ \E r \in CVResponses : AnalyzeCVSettled(r)
  \/ QuestionsPost
  \/ \E info \in CVInfos : QuestionsCVInfoSettled(info)
  \/ \E r \in QResponses, now \in Clock : QuestionsSettled(r, now)
  \/ GeneratePost
  \/ \E returns \in BOOLEAN : GenerateSettled(returns)
  \/ ParseFilePost
  \/ \E o \in {"text", "blank", "error"} : ParserSettled(o)
  \/ CoverLetterPost

(***************************************************************************)
(* The generation slice of the store and the process of the generation     *)
(* page (GeneratePage, startGenerationProcess).                            *)
(***************************************************************************)
\* initialState of the slice; result null is a record that is not defined.
initialState ==
  [status |-> "idle", progress |-> 0, error |-> "<null>",
   result |-> [defined |-> FALSE, status |-> Undefined, progress |-> JMissing,
               optimizedCV |-> Undefined, coverLetter |-> Undefined,
               error |-> Undefined]]

\* The reducers of generationSlice: the state after the action of this type
\* and payload.
generationSlice(state, type, payload) ==
  LET has == state.result.defined
  IN CASE type = "startGeneration" ->
            [status |-> "analyzing", progress |-> 0, error |-> "<null>",
             result |-> [defined |-> TRUE, status |-> "analyzing",
                         progress |-> JMissing, optimizedCV |-> Undefined,
                         coverLetter |-> Undefined, error |-> Undefined]]
       [] type = "updateStatus" ->
            [state EXCEPT !.status = payload,
                          !.result.status = IF has THEN payload ELSE @]
       [] type = "updateProgress" ->
            [state EXCEPT !.progress = Min(100, Max(0, payload)),
                          !.result.progress =
                             IF has THEN JNumber(Min(100, Max(0, payload))) ELSE @]
       [] type = "setGeneratedCV" ->
            [state EXCEPT !.result.optimizedCV = IF has THEN payload ELSE @]
       [] type = "setGeneratedCoverLetter" ->
            [state EXCEPT !.result.coverLetter = IF has THEN payload ELSE @]
       [] type = "completeGeneration" ->
            [state EXCEPT !.status = "completed", !.progress = 100,
                          !.result.status = IF has THEN "completed" ELSE @,
                          !.result.progress = IF has THEN JNumber(100) ELSE @]
       [] type = "setError" ->
            [state EXCEPT !.status = "error", !.error = payload,
                          !.result.status = IF has THEN "error" ELSE @,
                          !.result.error = IF has THEN payload ELSE @]
       [] type = "resetGeneration" -> initialState

\* startGenerationProcess up to its first await: startGeneration,
\* updateStatus('analyzing') and updateProgress(10) are dispatched.
startGenerationProcess(state) ==
  generationSlice(
    generationSlice(generationSlice(state, "startGeneration", "job"),
                    "updateStatus", "analyzing"),
    "updateProgress", 10)

\* What the fetch of the CV generation route settles with: a network error,
\* or a response with its ok flag and the success, data and error of its
\* JSON.
CVFetchOutcomes ==
  {[kind |-> "network", ok |-> FALSE, success |-> FALSE, data |-> "",
    error |-> "Failed to fetch"],
   [kind |-> "response", ok |-> FALSE, success |-> FALSE, data |-> "",
    error |-> Message.inference],
   [kind |-> "response", ok |-> FALSE, success |-> FALSE, data |-> "",
    error |-> ""],
   [kind |-> "response", ok |-> TRUE, success |-> FALSE, data |-> "",
    error |-> ""],
   [kind |-> "response", ok |-> TRUE, success |-> TRUE, data |-> "",
    error |-> ""],
   [kind |-> "response", ok |-> TRUE, success |-> TRUE, data |-> "optimized CV",
    error |-> ""]}

\* useEffect of GeneratePage on mount.
GMount ==
  /\ gPc = "mount"
  /\ IF ~gInput.jobDescription \/ ~gInput.cvData
     THEN gPc' = "/cv-input" /\ UNCHANGED generation
     ELSE IF generation.status = "idle"
     THEN generation' = startGenerationProcess(generation) /\ gPc' = "delay"
     ELSE gPc' = "shown" /\ UNCHANGED generation
  /\ UNCHANGED gInput

\* The first delay is over: step 2 begins and /api/cv/analyze is fetched.
GAfterDelay ==
  /\ gPc = "delay"
  /\ generation' =
       generationSlice(generationSlice(generation, "updateStatus", "generating"),
                       "updateProgress", 30)
  /\ gPc' = "fetchAnalyze"
  /\ UNCHANGED gInput

\* The fetch of /api/cv/analyze settles (its failure is swallowed) and the CV
\* generation route is fetched.
GAnalyzeSettled ==
  /\ gPc = "fetchAnalyze"
  /\ gPc' = "fetchCV"
  /\ UNCHANGED <<generation, gInput>>

\* The settlement that takes any successful response for a generated CV,
\* whatever its data.
GCVSettled_noDataCheck(o) ==
  /\ gPc = "fetchCV"
  /\ IF o.kind = "network" \/ ~o.ok \/ ~o.success
     THEN generation' = generationSlice(generation, "setError", "CV generation failed")
            /\ gPc' = "failed"
     ELSE generation' =
            generationSlice(generationSlice(generation, "setGeneratedCV", o.data),
                            "updateProgress", 70)
            /\ gPc' = "delay2"
  /\ UNCHANGED gInput

\* The fetch of the CV generation route settles with o.
GCVSettled(o) ==
  /\ gPc = "fetchCV"
  /\ IF o.kind = "network"
     THEN generation' = generationSlice(generation, "setError", o.error)
            /\ gPc' = "failed"
     ELSE IF ~o.ok
     THEN generation' =
            generationSlice(generation, "setError",
                            IF o.error # "" THEN o.error ELSE "Failed to generate CV")
            /\ gPc' = "failed"
     ELSE IF ~o.success \/ o.data = ""
     THEN generation' =
            generationSlice(generation, "setError",
                            IF o.error # "" THEN o.error ELSE "CV generation failed")
            /\ gPc' = "failed"
     ELSE generation' =
            generationSlice(generationSlice(generation, "setGeneratedCV", o.data),
                            "updateProgress", 70)
            /\ gPc' = "delay2"
  /\ UNCHANGED gInput

\* Step 4: updateProgress(100) and completeGeneration.
GComplete ==
  /\ gPc = "delay2"
  /\ generation' =
       generationSlice(generationSlice(generation, "updateProgress", 100),
                       "completeGeneration", "")
  /\ gPc' = "navigate"
  /\ UNCHANGED gInput

\* router.push('/results')
GNavigate ==
  /\ gPc = "navigate"
  /\ gPc' = "/results"
  /\ UNCHANGED <<generation, gInput>>

\* The Try Again button shown with generation.error calls
\* startGenerationProcess.
GRetry ==
  /\ gPc = "failed" /\ generation.error # "<null>"
  /\ generation' = startGenerationProcess(generation)
  /\ gPc' = "delay"
  /\ UNCHANGED gInput

(***************************************************************************)
(* The generation slice on its own: any reducer, with any payload of its   *)
(* type, in any order.                                                      *)
(***************************************************************************)
GenerationStatus == {"idle", "analyzing", "generating", "completed", "error"}

\* The payloads an action of this type is dispatched with.
Payloads(type) ==
  CASE type = "updateStatus" -> GenerationStatus
    [] type = "updateProgress" -> {-20, 35, 150}
    [] type \in {"setGeneratedCV", "setGeneratedCoverLetter"} -> {"", "text"}
    [] type = "setError" -> {"Generation failed"}
    [] type = "startGeneration" -> {"job"}
    [] OTHER -> {Undefined}

\* dispatch(action): the reducer of the action's type runs; gPc names it.
Dispatch(type, payload) ==
  /\ generation' = generationSlice(generation, type, payload)
  /\ gPc' = type
  /\ UNCHANGED gInput

SliceNext ==
  /\ \E type \in {"startGeneration", "updateStatus", "updateProgress",
                  "setGeneratedCV", "setGeneratedCoverLetter",
                  "completeGeneration", "setError", "resetGeneration"} :
       \E payload \in Payloads(type) : Dispatch(type, payload)
  /\ UNCHANGED <<gtVars, cvVars, qVars, hVars, uiVars>>

\* Start Over of the results page: router.push('/'); the user enters a new
\* job description and CV and reaches the generation page again.  The store
\* lives on across these client-side navigations; nothing dispatches
\* resetGeneration.
GStartOver ==
  /\ gPc = "/results"
  /\ gPc' = "mount"
  /\ gInput' = [jobDescription |-> TRUE, cvData |-> TRUE]
  /\ UNCHANGED generation

GInit ==
  /\ gInput \in [jobDescription : BOOLEAN, cvData : BOOLEAN]
  /\ gPc = "mount"
  /\ generation = initialState

\* The generation page is not open.
GIdle ==
  /\ gInput = [jobDescription |-> FALSE, cvData |-> FALSE]
  /\ gPc = "idle"
  /\ generation = initialState

GNext ==
  \/ GMount
  \/ GAfterDelay
  \/ GAnalyzeSettled
  \/ \E o \in CVFetchOutcomes : GCVSettled(o)
  \/ GComplete
  \/ GNavigate
  \/ GRetry
  \/ GStartOver

(***************************************************************************)
(* handleProceedAfterAnalysis of the CV input page, with the session of    *)
(* qaSessionSlice it initialises.                                           *)
(***************************************************************************)
(***************************************************************************)
(* cvDataSlice: state.cvData, and the reducers that write it.              *)
(***************************************************************************)
\* state.cvData = null
NoCVData ==
  [defined |-> FALSE, personalInfo |-> [fullName |-> "", email |-> ""],
   experience |-> <<>>, education |-> <<>>, skills |-> <<>>,
   rawContent |-> Undefined]

\* The CV object a reducer builds when state.cvData is null, which is also
\* the object moveToNextQuestion of the Q&A page builds on completion.
EmptyCV == [NoCVData EXCEPT !.defined = TRUE]

\* findIndex by id, then replace at that index or push.
upsert_push(list, entry) == Append(list, entry)

upsert(list, entry) ==
  IF \E i \in 1..Len(list) : list[i].id = entry.id
  THEN LET existingIndex == CHOOSE i \in 1..Len(list) :
                              /\ list[i].id = entry.id
                              /\ \A j \in 1..(i - 1) : list[j].id # entry.id
       IN [list EXCEPT ![existingIndex] = entry]
  ELSE Append(list, entry)

\* The reducers of cvDataSlice on state.cvData: the value after the action
\* of this type and payload.
cvDataSlice(state, type, payload) ==
  LET cv == IF state.defined THEN state ELSE EmptyCV
  IN CASE type = "setCVData" -> payload
       [] type = "updatePersonalInfo" -> [cv EXCEPT !.personalInfo = payload]
       [] type = "addExperience" ->
            [cv EXCEPT !.experience = upsert(cv.experience, payload)]
       [] type = "removeExperience" ->
            IF state.defined
            THEN [state EXCEPT !.experience =
                     SelectSeq(state.experience, LAMBDA exp : exp.id # payload)]
            ELSE state
       [] type = "addEducation" ->
            [cv EXCEPT !.education = upsert(cv.education, payload)]
       [] type = "updateSkills" -> [cv EXCEPT !.skills = payload]
       [] type = "setRawCVContent" -> [cv EXCEPT !.rawContent = payload]
       [] type = "clearCVData" -> NoCVData

\* Ids and entries of the experience and education lists.
EntryIds == {"id-1", "id-2"}
Entries == [id : EntryIds, text : {"first", "second"}]

\* The longest list an add is dispatched on.
MaxEntries == 3

\* The payloads an action of cvDataSlice is dispatched with.
CVPayloads(type) ==
  CASE type \in {"addExperience", "addEducation"} -> Entries
    [] type = "removeExperience" -> EntryIds
    [] type = "updatePersonalInfo" -> {[fullName |-> "Ada Lovelace", email |-> "ada@example.org"]}
    [] type = "updateSkills" -> {<<"TypeScript", "React">>}
    [] type = "setRawCVContent" -> {"raw CV text"}
    [] type = "setCVData" -> {EmptyCV}
    [] OTHER -> {Undefined}

NoAction == [type |-> "none", payload |-> Undefined]

\* dispatch(action) on cvDataSlice; cvLast is the action dispatched.
CVDispatch(type, payload) ==
  /\ type = "addExperience" => Len(cvData.experience) < MaxEntries
  /\ type = "addEducation" => Len(cvData.education) < MaxEntries
  /\ cvData' = cvDataSlice(cvData, type, payload)
  /\ cvLast' = [type |-> type, payload |-> payload]
  /\ UNCHANGED cvStored

\* Nothing has been dispatched on cvDataSlice.
CIdle == cvData = NoCVData /\ cvStored = NoCVData /\ cvLast = NoAction

CVDataNext ==
  /\ \E type \in {"setCVData", "updatePersonalInfo", "addExperience",
                  "removeExperience", "addEducation", "updateSkills",
                  "setRawCVContent", "clearCVData"} :
       \E payload \in CVPayloads(type) : CVDispatch(type, payload)
  /\ UNCHANGED <<gtVars, cvVars, qVars, hVars, gVars, pVars, qa>>

\* state.session of qaSessionSlice: null, or the session initializeSession
\* has built.
NoSession ==
  [defined |-> FALSE, jobDescriptionId |-> "", pendingQuestions |-> <<>>,
   messages |-> <<>>, isComplete |-> FALSE]

\* initializeSession
initializeSession(payload) ==
  [defined |-> TRUE, jobDescriptionId |-> payload.jobDescriptionId,
   pendingQuestions |-> payload.pendingQuestions,
   messages |-> <<>>, isComplete |-> FALSE]

\* The pending questions of the fallback session.
DefaultPending == <<"personal_info", "experience", "education", "skills", "summary">>

\* Match scores around the threshold of the Q&A route.
MatchScores == 68..92

\* What the fetch of /api/qa/generate-questions settles with: a rejection
\* (network failure), or a response with its ok flag and whether its body
\* is JSON, and the success, data and question types of that JSON.
QuestionFetchOutcomes ==
  {[kind |-> "network", ok |-> FALSE, json |-> FALSE, success |-> FALSE,
    data |-> FALSE, types |-> <<>>],
   [kind |-> "response", ok |-> FALSE, json |-> TRUE, success |-> FALSE,
    data |-> FALSE, types |-> <<>>],
   [kind |-> "response", ok |-> TRUE, json |-> FALSE, success |-> FALSE,
    data |-> FALSE, types |-> <<>>],
   [kind |-> "response", ok |-> TRUE, json |-> TRUE, success |-> FALSE,
    data |-> FALSE, types |-> <<>>],
   [kind |-> "response", ok |-> TRUE, json |-> TRUE, success |-> TRUE,
    data |-> TRUE, types |-> <<"skills", "experience", "skills">>]}

\* handleProceedAfterAnalysis up to its first await.
PProceed ==
  /\ pPc = "analysis"
  /\ IF ~pInput.analysisResult \/ ~pInput.jobDescription
     THEN pPc' = "returned"
     ELSE IF pInput.matchScore < 80
     THEN pPc' = "awaitQuestions"
     ELSE pPc' = "/generate"
  /\ UNCHANGED <<pInput, qaSession>>

\* The awaited fetch settles with o.  A rejection of the fetch, or of
\* questionsResponse.json(), is caught nowhere: the handler ends there.
PQuestionsSettled(o) ==
  /\ pPc = "awaitQuestions"
  /\ IF o.kind = "network" \/ (o.ok /\ ~o.json)
     THEN pPc' = "rejected" /\ UNCHANGED qaSession
     ELSE /\ qaSession' =
               initializeSession(
                 [jobDescriptionId |-> "job",
                  pendingQuestions |-> IF o.ok /\ o.success /\ o.data
                                       THEN o.types ELSE DefaultPending])
          /\ pPc' = "/qa"
  /\ UNCHANGED pInput

PInit ==
  /\ pInput \in [analysisResult : BOOLEAN, jobDescription : BOOLEAN,
                 matchScore : MatchScores]
  /\ pPc = "analysis"
  /\ qaSession = NoSession

\* handleProceedAfterAnalysis is not running.
PIdle ==
  /\ pPc = "idle"
  /\ pInput = [analysisResult |-> FALSE, jobDescription |-> FALSE, matchScore |-> 0]
  /\ qaSession = NoSession

PNext ==
  \/ PProceed
  \/ \E o \in QuestionFetchOutcomes : PQuestionsSettled(o)

(***************************************************************************)
(* The Q&A page.  Its question objects live on a heap (qa.heap), and the   *)
(* arrays and the current question hold references into it, because the    *)
(* handlers both mutate these objects in place and copy them.  A timeout   *)
(* callback runs with the questions array of the render that created it    *)
(* (qa.closure).  The counts qa.answers, qa.prompts and qa.asks record, per *)
(* question id, the answers submitted, the clarification prompts and the   *)
(* times the question was asked; qa.wrote and qa.uploaded record what the  *)
(* page dispatched to cvDataSlice and the raw content it started with.     *)
(***************************************************************************)
QuestionState(questionId, type) ==
  [questionId |-> questionId, type |-> type, attempts |-> 0, maxAttempts |-> 2,
   isAnswered |-> FALSE]

\* The question lists setQuestions receives from /api/qa/generate-questions.
QuestionLists ==
  {<<>>,
   <<QuestionState("q-1", "personal_info"), QuestionState("q-2", "skills")>>,
   <<QuestionState("q-1", "experience"), QuestionState("q-2", "personal_info"),
     QuestionState("q-3", "education")>>}
QuestionIds == {"q-1", "q-2", "q-3"}

\* The trimmed input: its length, whether it holds '@', and the number of
\* its pieces under split(' ') and under split(/[,\n]/).
Answers ==
  {[length |-> 0, hasAt |-> FALSE, words |-> 1, parts |-> 1],
   [length |-> 4, hasAt |-> FALSE, words |-> 1, parts |-> 1],
   [length |-> 18, hasAt |-> FALSE, words |-> 1, parts |-> 2],
   [length |-> 45, hasAt |-> TRUE, words |-> 7, parts |-> 3]}

\* validateAnswer
validateAnswer(answer, type) ==
  IF answer.length < 10 THEN FALSE
  ELSE CASE type = "personal_info" -> answer.hasAt \/ answer.words >= 2
         [] type = "experience" -> answer.length > 30
         [] type = "skills" -> answer.parts >= 2 \/ answer.length > 20
         [] type = "education" -> answer.length > 15
         [] OTHER -> answer.length > 15

\* What processAnswer extracts from an answer.
PersonalInfoOf(answer) ==
  [fullName |-> "first words", email |-> IF answer.hasAt THEN "e@mail" ELSE ""]
SkillsOf(answer) == [i \in 1..answer.parts |-> "skill"]

\* processAnswer: state.cvData after its dispatch.
processAnswer(cv, questionType, answer) ==
  CASE questionType = "personal_info" ->
         cvDataSlice(cv, "updatePersonalInfo", PersonalInfoOf(answer))
    [] questionType = "skills" -> cvDataSlice(cv, "updateSkills", SkillsOf(answer))
    [] OTHER -> cv

\* addMessage
addMessage(session, message) ==
  IF session.defined
  THEN [session EXCEPT !.messages = Append(session.messages, message)]
  ELSE session

\* The page before initializeQuestions, and when it is not open.
NewPage ==
  [pc |-> "init", heap |-> <<>>, questions |-> <<>>, closure |-> <<>>,
   current |-> 0, totalQuestions |-> 0, answeredCount |-> 0, isTyping |-> FALSE,
   answers |-> [id \in QuestionIds |-> 0], prompts |-> [id \in QuestionIds |-> 0],
   asks |-> [id \in QuestionIds |-> 0], wrote |-> {}, uploaded |-> Undefined]
NoPage == [NewPage EXCEPT !.pc = "idle"]

\* initializeQuestions once its requests have settled with this list:
\* setQuestions, setTotalQuestions and askQuestion of the first question.
AInitializeQuestions(list) ==
  /\ qa.pc = "init" /\ qaSession.defined /\ qaSession.messages = <<>>
  /\ qa' = [qa EXCEPT !.heap = list,
                      !.questions = [i \in 1..Len(list) |-> i],
                      !.totalQuestions = Len(list),
                      !.current = IF Len(list) > 0 THEN 1 ELSE 0,
                      !.asks = IF Len(list) > 0
                               THEN [@ EXCEPT ![list[1].questionId] = 1] ELSE @,
                      !.pc = "awaitAnswer"]
  /\ qaSession' = IF Len(list) > 0
                  THEN addMessage(qaSession, [role |-> "assistant",
                                              content |-> list[1].questionId])
                  ELSE qaSession
  /\ UNCHANGED <<cvData, cvStored, cvLast>>

\* handleSubmit with the trimmed input.
ASubmit(answer) ==
  /\ qa.pc = "awaitAnswer" /\ ~qa.isTyping /\ ~qaSession.isComplete
  /\ answer.length > 0 /\ qaSession.defined /\ qa.current # 0
  /\ LET cur == qa.heap[qa.current]
         id == cur.questionId
         withUser == addMessage(qaSession, [role |-> "user", content |-> "answer"])
         asked == [cur EXCEPT !.attempts = @ + 1]
         answered == [cur EXCEPT !.isAnswered = TRUE, !.attempts = @ + 1]
     IN IF ~validateAnswer(answer, cur.type) /\ cur.attempts < cur.maxAttempts - 1
        THEN \* currentQuestion.attempts++; setCurrentQuestion({ ...currentQuestion })
             /\ qa' = [qa EXCEPT !.heap = Append([@ EXCEPT ![qa.current] = asked], asked),
                                 !.current = Len(qa.heap) + 1,
                                 !.isTyping = TRUE,
                                 !.answers[id] = @ + 1,
                                 !.pc = "clarifying"]
             /\ qaSession' = withUser
             /\ UNCHANGED <<cvData, cvLast>>
        ELSE /\ cvData' = processAnswer(cvData, cur.type, answer)
             /\ cvLast' = IF cur.type \in {"personal_info", "skills"}
                          THEN [type |-> IF cur.type = "skills" THEN "updateSkills"
                                         ELSE "updatePersonalInfo",
                                payload |-> IF cur.type = "skills" THEN SkillsOf(answer)
                                            ELSE PersonalInfoOf(answer)]
                          ELSE cvLast
             /\ qa' = [qa EXCEPT
                         !.heap = [@ EXCEPT ![qa.current] = answered],
                         !.closure = qa.questions,
                         !.questions =
                            [i \in 1..Len(qa.questions) |->
                               IF qa.heap[qa.questions[i]].questionId = id
                               THEN qa.current ELSE qa.questions[i]],
                         !.answeredCount = @ + 1,
                         !.isTyping = TRUE,
                         !.answers[id] = @ + 1,
                         !.wrote = IF cur.type \in {"personal_info", "skills"}
                                   THEN @ \cup {cur.type} ELSE @,
                         !.pc = "moving"]
             \* markQuestionAnswered(currentQuestion.type)
             /\ qaSession' = [withUser EXCEPT !.pendingQuestions =
                                SelectSeq(@, LAMBDA q : q # cur.type)]
  /\ UNCHANGED cvStored

\* The timeout of the unclear answer: the clarification prompt is added.
AClarify ==
  /\ qa.pc = "clarifying"
  /\ qa' = [qa EXCEPT !.isTyping = FALSE,
                      !.prompts[qa.heap[qa.current].questionId] = @ + 1,
                      !.pc = "awaitAnswer"]
  /\ qaSession' = addMessage(qaSession, [role |-> "assistant", content |-> "clarification"])
  /\ UNCHANGED <<cvData, cvStored, cvLast>>

\* The timeout of the accepted answer: moveToNextQuestion, with the
\* questions array of the render in which handleSubmit ran.
AMoveToNextQuestion ==
  /\ qa.pc = "moving"
  /\ LET open == {i \in 1..Len(qa.closure) : ~qa.heap[qa.closure[i]].isAnswered}
     IN IF open = {}
        THEN /\ qaSession' =
                  [addMessage(qaSession, [role |-> "assistant", content |-> "completion"])
                     EXCEPT !.isComplete = qaSession.defined]
             /\ cvData' = cvDataSlice(cvData, "setCVData", EmptyCV)
             /\ cvLast' = [type |-> "setCVData", payload |-> EmptyCV]
             /\ cvStored' = EmptyCV
             /\ qa' = [qa EXCEPT !.isTyping = FALSE, !.pc = "navigating"]
        ELSE LET next == qa.closure[CHOOSE i \in open : \A j \in open : i <= j]
             IN /\ qa' = [qa EXCEPT !.isTyping = FALSE,
                                    !.current = next,
                                    !.asks[qa.heap[next].questionId] = @ + 1,
                                    !.pc = "awaitAnswer"]
                /\ qaSession' = addMessage(qaSession,
                                           [role |-> "assistant",
                                            content |-> qa.heap[next].questionId])
                /\ UNCHANGED <<cvData, cvStored, cvLast>>

\* The last timeout: router.push('/generate').
ANavigate ==
  /\ qa.pc = "navigating"
  /\ qa' = [qa EXCEPT !.pc = "/generate"]
  /\ UNCHANGED <<qaSession, cvData, cvStored, cvLast>>

\* The CV uploaded on the CV input page before the session.
UploadedCV == [EmptyCV EXCEPT !.rawContent = "raw CV text"]

QAInit ==
  /\ cvData \in {NoCVData, UploadedCV} /\ cvStored = cvData /\ cvLast = NoAction
  /\ qa = [NewPage EXCEPT !.uploaded = cvData.rawContent]
  /\ qaSession = initializeSession([jobDescriptionId |-> "job",
                                    pendingQuestions |-> DefaultPending])
  /\ pPc = "/qa"
  /\ pInput = [analysisResult |-> TRUE, jobDescription |-> TRUE, matchScore |-> 68]

QANext ==
  /\ \/ \E list \in QuestionLists : AInitializeQuestions(list)
     \/ \E answer \in Answers : ASubmit(answer)
     \/ AClarify
     \/ AMoveToNextQuestion
     \/ ANavigate
  /\ UNCHANGED <<gtVars, cvVars, qVars, hVars, gVars, pPc, pInput>>

\* No client page is open.
UIIdle == PIdle /\ CIdle /\ qa = NoPage

GTInit ==
  /\ env \in [{EnvNames[i] : i \in 1..Len(EnvNames)} -> EnvValues]
  /\ primary \in PrimaryModels
  /\ stack = <<Frame(primary)>>
  /\ requests = <<>>
  /\ inflight = 0
  /\ result = NoValue

\* analyzeCVMatch is not running.
NoInput == [cvContent |-> <<>>, jobDescription |-> <<>>,
            jobAnalysis |-> [keySkills |-> <<>>, keyRequirements |-> <<>>]]
CVIdle ==
  /\ cvInput = NoInput /\ cvPc = "idle"
  /\ cvResponse = NoResponse /\ cvResult = NoAnalysis

\* generateText is not running.
GTIdle ==
  /\ env = [n \in {EnvNames[i] : i \in 1..Len(EnvNames)} |-> Undefined]
  /\ primary = CV_GENERATION
  /\ stack = <<>> /\ requests = <<>> /\ inflight = 0 /\ result = NoValue

CVInit ==
  /\ cvInput \in [cvContent : CvContents, jobDescription : JobDescriptions,
                  jobAnalysis : [keySkills : KeySkillLists,
                                 keyRequirements : KeyRequirementLists]]
  /\ cvPc = "start"
  /\ cvResponse = NoResponse
  /\ cvResult = NoAnalysis

Init == GTInit /\ CVIdle /\ QIdle /\ HIdle /\ GIdle /\ UIIdle

GTNext ==
  \/ Enter
  \/ Send
  \/ \E o \in Outcomes : Complete(o)
  \/ TryFallback
  \/ Exhausted
  \/ ReturnToLoop
  \/ ReturnToCaller

Next == GTNext /\ UNCHANGED <<cvVars, qVars, hVars, gVars, uiVars>>

Spec == Init /\ [][Next]_vars

CVNext ==
  \/ CVCallGenerateText
  \/ \E r \in CVResponses : CVSettle(r)

CVMatchInit == GTIdle /\ CVInit /\ QIdle /\ HIdle /\ GIdle /\ UIIdle

CVMatchNext == CVNext /\ UNCHANGED <<gtVars, qVars, hVars, gVars, uiVars>>

SpecCVMatch == CVMatchInit /\ [][CVMatchNext]_vars

QuestionsInit == GTIdle /\ CVIdle /\ QInit /\ HIdle /\ GIdle /\ UIIdle

QuestionsNext == QNext /\ UNCHANGED <<gtVars, cvVars, hVars, gVars, uiVars>>

SpecQuestions == QuestionsInit /\ [][QuestionsNext]_vars

HandlersInit == GTIdle /\ CVIdle /\ QIdle /\ HInit /\ GIdle /\ UIIdle

HandlersNext == HNext /\ UNCHANGED <<gtVars, cvVars, qVars, gVars, uiVars>>

SpecHandlers == HandlersInit /\ [][HandlersNext]_vars

\* The generation page runs while the cover letter route is requested.
GenerationInit ==
  GTIdle /\ CVIdle /\ QIdle /\ HInit /\ hRoute = "coverLetter" /\ GInit /\ UIIdle

GenerationNext ==
  /\ \/ CoverLetterPost /\ UNCHANGED gVars
     \/ GNext /\ UNCHANGED hVars
  /\ UNCHANGED <<gtVars, cvVars, qVars, uiVars>>

SpecGeneration == GenerationInit /\ [][GenerationNext]_vars

(***************************************************************************)
(* Properties of analyzeCVMatch.                                           *)
(***************************************************************************)
\* C10: every analysis returned by analyzeCVMatch has a match score within
\* [0, 100], from the model's JSON as well as from the heuristic.
C10_MatchScoreInRange ==
  cvPc = "done" => cvResult.matchScore >= 0 /\ cvResult.matchScore <= 100

\* An out-of-range score of the model was discarded for the heuristic, which
\* itself reached the clamp (full coverage plus the length bonus).
C10_Witness ==
  /\ cvPc = "done"
  /\ cvResponse.kind = "text" /\ cvResponse.parses
  /\ cvResponse.object.matchScore = JNumber(150)
  /\ cvResult.source = "heuristic"
  /\ Len(cvInput.cvContent) > 500
  /\ cvResult.matchScore = 100

\* Nothing of the job occurs in the CV: no key skill (as a substring, case
\* ignored), no word of a requirement, no keyword of the job description.
NothingMatches ==
  LET cvLower == toLowerCase(cvInput.cvContent)
      skills == cvInput.jobAnalysis.keySkills
      reqs == cvInput.jobAnalysis.keyRequirements
  IN /\ \A i \in 1..Len(skills) : ~includes(cvLower, toLowerCase(skills[i]))
     /\ \A i \in 1..Len(reqs) :
          \A w \in splitWhitespace(toLowerCase(reqs[i])) :
            Len(w) > 4 => ~includes(cvLower, w)
     /\ keywordSet(cvInput.jobDescription) \cap keywordSet(cvInput.cvContent) = {}

\* C13: on the heuristic path, when no key skill, no requirement word and no
\* keyword of the job description occurs in the CV, matchedSkills is empty,
\* missingSkills is the whole keySkills list in its order, and matchScore is
\* within [0, 100] and low: 0, or 5 when the CV is longer than 500 characters
\* (the length bonus alone).
C13_ZeroMatchIsLow ==
  (cvPc = "done" /\ cvResult.source = "heuristic" /\ NothingMatches)
    => /\ cvResult.matchedSkills = <<>>
       /\ cvResult.missingSkills = cvInput.jobAnalysis.keySkills
       /\ cvResult.matchScore >= 0 /\ cvResult.matchScore <= 100
       /\ cvResult.matchScore = IF Len(cvInput.cvContent) > 500 THEN 5 ELSE 0

\* The heuristic ran on a non-empty short CV that shares nothing with a job
\* of three key skills and three requirements.
C13_Witness ==
  /\ cvPc = "done" /\ cvResult.source = "heuristic" /\ NothingMatches
  /\ cvInput.cvContent = CvOther
  /\ Len(cvInput.jobAnalysis.keySkills) = 3
  /\ Len(cvInput.jobAnalysis.keyRequirements) = 3
  /\ cvResult.matchScore = 0

(***************************************************************************)
(* Properties of generateText.                                             *)
(***************************************************************************)
\* The outermost generateText call has settled.
Settled == stack = <<>>
Raised == Settled /\ result.kind = "error"
NumFallbacks == Len(fallbackModels)
FailedWithProviderError(i) == requests[i].outcome = [kind |-> "error", text |-> ProviderError]
\* The chain of models in the order of the attempts.
Chain == <<primary>> \o fallbackModels
NoCredential == \A k \in 1..Len(EnvNames) : env[EnvNames[k]] \in {Undefined, ""}

C2_Original ==
  Raised => Len(requests) >= 2 /\ requests[2].attempt = fallbackModels[1]

\* C2 (amended): when the primary model is not one of the fallback models and
\* its attempt fails with a provider API error, the first fallback model is
\* attempted before anything is raised; after any other failure of the primary
\* (empty response, any other exception) no fallback model is attempted.
C2_FallbackOnProviderError ==
  /\ (Raised /\ ~InList(fallbackModels, primary) /\ FailedWithProviderError(1))
       => Len(requests) >= 2 /\ requests[2].attempt = fallbackModels[1]
  /\ Len(requests) >= 2
       => ~InList(fallbackModels, primary) /\ FailedWithProviderError(1)

C2_Witness ==
  /\ Len(requests) = 2 /\ FailedWithProviderError(1)
  /\ requests[2].attempt = fallbackModels[1] /\ result.kind = "none"

\* The attempt of request i succeeded, as generateText sees it.
Succeeded(i) ==
  /\ requests[i].outcome.kind = "text"
  /\ requests[i].conversational => requests[i].outcome.text # ""

C4_RequestNamesAttemptModel ==
  \A i \in 1..Len(requests) : requests[i].model = requests[i].attempt

\* C5 (as stated): when the fallback list is exhausted the error raised
\* enumerates every attempted model and carries the remediation hints.
C5_Original ==
  (Raised /\ Len(requests) = 1 + NumFallbacks)
    => /\ {result.named[i] : i \in 1..Len(result.named)}
            = {requests[i].attempt : i \in 1..Len(requests)}
       /\ result.hints # {}

\* C5 (amended): when the fallback list is exhausted the error raised is the
\* diagnostic message, which names the caller's model only (the fallback
\* models are said to have failed but are not listed) and carries the
\* remediation hints.
C5_DiagnosticNamesPrimary ==
  (Raised /\ Len(requests) = 1 + NumFallbacks)
    => /\ result.err = "diagnostic"
       /\ result.named = <<primary>>
       /\ result.hints = DiagnosticHints

C5_Witness ==
  /\ Raised /\ Len(requests) = 1 + NumFallbacks
  /\ primary = PLAIN_MODEL /\ result.named = <<PLAIN_MODEL>>

\* C6: at most one provider request is in flight, and a request is sent only
\* when every earlier request has settled.
C6_OneRequestInFlight ==
  /\ inflight <= 1
  /\ inflight = Cardinality({i \in 1..Len(requests) : requests[i].outcome = Pending})
  /\ \A i \in 1..(Len(requests) - 1) : requests[i].outcome # Pending

C6_Witness ==
  /\ Len(requests) = 3 /\ inflight = 1 /\ requests[3].outcome = Pending

\* C7: with no credential in the environment no request is sent and
\* generateText raises the configuration error.
C7_NoCredentialNoRequest ==
  NoCredential =>
    /\ requests = <<>>
    /\ Settled => result = ErrorValue("HUGGINGFACE_API_TOKEN is not set")

\* C8: the token of every request is the value of the first variable, in
\* the fixed order, that holds a non-empty value.
C8_FirstNonEmptyToken ==
  \A i \in 1..Len(requests) : \A k \in 1..Len(EnvNames) :
    (/\ env[EnvNames[k]] \notin {Undefined, ""}
     /\ \A j \in 1..(k - 1) : env[EnvNames[j]] \in {Undefined, ""})
      => requests[i].token = env[EnvNames[k]]

C8_Witness ==
  /\ requests # <<>>
  /\ env["HUGGINGFACE_API_TOKEN"] = ""
  /\ env["NEXT_PUBLIC_HUGGINGFACE_API_TOKEN"] = Undefined
  /\ env["HF_TOKEN"] = "hf_A"
  /\ env["HF_API_TOKEN"] = "hf_B"
  /\ requests[1].token = "hf_A"

\* C9: generateText never returns the empty string.
C9_NeverReturnsEmpty ==
  (Settled /\ result.kind = "text") => result.text # ""

(***************************************************************************)
(* Properties of the question generator.                                   *)
(***************************************************************************)
QFromModel == qResponse.kind = "text" /\ qResponse.brackets /\ qResponse.parses

\* C11: every question list returned has between 10 and 15 entries.
C11_TenToFifteenQuestions ==
  qPc = "done" => Len(qResult) >= 10 /\ Len(qResult) <= 15

\* C12: with hasPersonalInfo set, the fallback list has no question of type
\* personal_info.
C12_NoPersonalInfoQuestion ==
  (qPc = "done" /\ ~QFromModel
     /\ qInput.extractedCVInfo.defined /\ qInput.extractedCVInfo.hasPersonalInfo)
    => \A i \in 1..Len(qResult) : qResult[i].type # "personal_info"

C12_Witness ==
  /\ qPc = "done" /\ qResponse.kind = "error"
  /\ qInput.extractedCVInfo.defined /\ qInput.extractedCVInfo.hasPersonalInfo
  /\ ~qInput.extractedCVInfo.hasSkills /\ qInput.cvMatch.defined
  /\ Len(qResult) = 10

\* C19: every question returned has a type of the QuestionType enumeration
\* and a priority among high, medium, low.
C19_TypeAndPriorityInEnum ==
  qPc = "done" =>
    \A i \in 1..Len(qResult) :
      qResult[i].type \in QuestionType /\ qResult[i].priority \in Priority

(***************************************************************************)
(* Properties of the route handlers and of the analyzers behind them.      *)
(***************************************************************************)
ListFields == {"keySkills", "personalityTraits", "values", "keyRequirements",
               "missingInfo"}

\* C14: every JobAnalysis returned by analyzeJobDescription and every
\* CVMatchAnalysis returned by analyzeCVMatch has all of its list fields
\* present as lists, whether it was built from the model's parsed JSON or by
\* a heuristic.  (A CVMatchAnalysis carries its lists as sequences here, so
\* the fields that can be missing are those of the JobAnalysis.)
C14_ListFieldsPresent ==
  (hRoute = "analyze" /\ hJobAnalysis.source # "none")
    => /\ hJobAnalysis.profile
       /\ \A f \in ListFields : hJobAnalysis[f].defined

\* C15: whatever the inference calls answer (a failure, a text without
\* JSON, malformed JSON, JSON of another shape), POST /analyze and
\* POST /generate-questions, once they have called the inference adapter for
\* a well-formed request, answer with a result and never with an error.
C15_InferenceOutcomeNeverSurfaces ==
  (/\ hPc = "done" /\ hAdapterCalls > 0
   /\ \/ hRoute = "analyze"
      \/ hRoute = "questions" /\ ~questionsPromptThrows(hRequest.jobAnalysis))
    => hReply.success /\ hReply.status = 200

\* The file of the request is named *.doc (in any letter case).
DocUpload ==
  /\ hRoute = "parseFile" /\ hPc # "start"
  /\ hRequest.readable /\ hRequest.file.present
  /\ endsWith(toLowerCase(hRequest.file.name), Sample.doc)

\* The declared types that POST /parse-file dispatches on before it looks
\* for the .doc extension.
ParsedTypes == {MIME.pdf, MIME.docx, MIME.txt}

\* C16 as stated: for every uploaded file whose name ends in .doc, whatever
\* its declared MIME type, POST /parse-file answers with the fixed legacy
\* .doc error and invokes no parser.
C16_Original ==
  DocUpload => /\ hParser = "none"
               /\ hPc = "done" /\ hReply = Failure(400, Message.legacyDoc)

\* C16: for every uploaded file whose name ends in .doc and whose declared
\* MIME type is none of the PDF, DOCX and plain text types, POST /parse-file
\* answers 400 with the fixed legacy .doc error and invokes no parser; with
\* one of those three types declared, the parser of that type is invoked.
C16_LegacyDocUnlessParsedType ==
  DocUpload =>
    IF hRequest.file.type \in ParsedTypes
    THEN hParser = CASE hRequest.file.type = MIME.pdf -> "pdf"
                     [] hRequest.file.type = MIME.docx -> "mammoth"
                     [] OTHER -> "txt"
    ELSE /\ hParser = "none"
         /\ hPc = "done" /\ hReply = Failure(400, Message.legacyDoc)

\* CV.DOC declared as image/png was rejected as a legacy .doc file.
C16_Witness ==
  /\ DocUpload /\ hPc = "done"
  /\ hRequest.file.name = Sample.cvDocUpper /\ hRequest.file.type = "image/png"
  /\ hReply.error = Message.legacyDoc /\ hParser = "none"

FourHandlers == {"analyze", "questions", "generate", "parseFile"}

\* Every reply has a success flag; a failure has a message and status 400 or
\* 500, a success has status 200.
StructuredReply ==
  /\ hReply.success \in BOOLEAN
  /\ ~hReply.success => hReply.error # "" /\ hReply.status \in {400, 500}
  /\ hReply.success => hReply.status = 200

Listed(m) == \E i \in 1..Len(fallbackModels) : fallbackModels[i] = m

\* The fallback models other than m, in their order.
Others(m) == SelectSeq(fallbackModels, LAMBDA f : f # m)

OnHeuristicPath == cvPc = "done" /\ cvResult.source = "heuristic"

\* C21: on the heuristic path the match score is
\* round(40 * matchedSkills / max(1, |keySkills|)
\*       + 40 * matchedRequirements / max(1, |keyRequirements|)
\*       + 20 * keywordOverlapRatio),
\* plus 5 when the CV text is longer than 500 characters, clamped to
\* [0,100]; a skill is matched iff it occurs in the CV as a case-insensitive
\* substring, a requirement iff one of its words longer than 4 characters
\* occurs in the CV, so a requirement without such a word is missing.
C21_HeuristicScore ==
  LET cv == toLowerCase(cvInput.cvContent)
      skills == cvInput.jobAnalysis.keySkills
      reqs == cvInput.jobAnalysis.keyRequirements
      longWords(req) == {w \in splitWhitespace(toLowerCase(req)) : Len(w) > 4}
      skillIn(i) == includes(cv, toLowerCase(skills[i]))
      reqIn(i) == \E w \in longWords(reqs[i]) : includes(cv, w)
      mS == Cardinality({i \in 1..Len(skills) : skillIn(i)})
      mR == Cardinality({i \in 1..Len(reqs) : reqIn(i)})
      tS == IF Len(skills) > 1 THEN Len(skills) ELSE 1
      tR == IF Len(reqs) > 1 THEN Len(reqs) ELSE 1
      jobWords == keywordSet(cvInput.jobDescription)
      oNum == Cardinality(jobWords \cap keywordSet(cvInput.cvContent))
      oDen == IF jobWords = {} THEN 1 ELSE Cardinality(jobWords)
      \* the weighted sum as the fraction num / den
      den == tS * tR * oDen
      num == 40 * mS * tR * oDen + 40 * mR * tS * oDen + 20 * oNum * tS * tR
      \* s = round(num / den): s - 1/2 <= num / den < s + 1/2
      isRound(s) == (2 * s - 1) * den <= 2 * num /\ 2 * num < (2 * s + 1) * den
      bonus == IF Len(cvInput.cvContent) > 500 THEN 5 ELSE 0
      clamp(x) == IF x < 0 THEN 0 ELSE IF x > 100 THEN 100 ELSE x
      elems(seq) == {seq[i] : i \in 1..Len(seq)}
  IN OnHeuristicPath =>
       /\ \E s \in 0..100 : isRound(s) /\ cvResult.matchScore = clamp(s + bonus)
       /\ elems(cvResult.matchedSkills) = {skills[i] : i \in {j \in 1..Len(skills) : skillIn(j)}}
       /\ elems(cvResult.missingSkills) = {skills[i] : i \in {j \in 1..Len(skills) : ~skillIn(j)}}
       /\ elems(cvResult.matchedRequirements) = {reqs[i] : i \in {j \in 1..Len(reqs) : reqIn(j)}}
       /\ \A i \in 1..Len(reqs) :
            longWords(reqs[i]) = {} => reqs[i] \in elems(cvResult.missingRequirements)

\* The heuristic scored a CV of more than 500 characters in which one of
\* three key skills occurs in another case, one requirement is matched by a
\* long word and one requirement has no word longer than 4 characters.
C21_Witness ==
  /\ OnHeuristicPath
  /\ Len(cvInput.cvContent) > 500
  /\ cvInput.jobAnalysis.keySkills = <<SkillPython, SkillReact, SkillGo>>
  /\ cvInput.jobAnalysis.keyRequirements = <<ReqShortWords, ReqPython, ReqKubernetes>>
  /\ cvResult.matchedRequirements = <<ReqKubernetes>>
  /\ ReqShortWords \in {cvResult.missingRequirements[i] :
                          i \in 1..Len(cvResult.missingRequirements)}
  /\ cvResult.matchScore \in 6..99

SliceInit == GTIdle /\ CVIdle /\ QIdle /\ HIdle /\ GIdle /\ UIIdle

SpecSlice == SliceInit /\ [][SliceNext]_vars

\* C22: after any sequence of generation-slice actions, progress is within
\* [0,100] (updateProgress clamps an out-of-range payload), status is one of
\* idle, analyzing, generating, completed, error, and whenever a result
\* record exists its status equals the status of the slice.
C22_SliceInvariant ==
  /\ generation.progress \in 0..100
  /\ generation.status \in {"idle", "analyzing", "generating", "completed", "error"}
  /\ generation.result.defined => generation.result.status = generation.status

\* updateProgress has just clamped the payload 150 to 100 while a result
\* record exists and the generation is under way.
C22_Witness ==
  /\ gPc = "updateProgress" /\ generation.progress = 100
  /\ generation.result.defined /\ generation.result.progress = JNumber(100)
  /\ generation.status = "generating" /\ generation.result.status = "generating"

ProceedInit == GTIdle /\ CVIdle /\ QIdle /\ HIdle /\ GIdle /\ PInit /\ CIdle /\ qa = NoPage

ProceedNext == PNext /\ UNCHANGED <<gtVars, cvVars, qVars, hVars, gVars, cVars, qa>>

SpecProceed == ProceedInit /\ [][ProceedNext]_vars

\* handleProceedAfterAnalysis has run to its end, past its guard.
Proceeded == pPc \in {"/qa", "/generate", "rejected"}

\* C23: when the user proceeds from an analysis whose matchScore is below
\* 80, then for every outcome of the question-generation request (success,
\* error response or network failure) a Q&A session is initialised and the
\* user is navigated to /qa; when matchScore is 80 or more the user is
\* navigated to /generate and no session is created.
C23_RoutedByMatchScore ==
  Proceeded =>
    IF pInput.matchScore < 80
    THEN qaSession.defined /\ pPc = "/qa"
    ELSE ~qaSession.defined /\ pPc = "/generate"

\* generateText where every step that can be taken eventually is: a provider
\* request that was sent eventually returns or fails, and the code between
\* two awaits runs to its end.
SpecTermination == Init /\ [][Next]_vars /\ WF_vars(Next)

GenerationStep ==
  LET from == generation.status
      to == generation'.status
  IN /\ gPc' = "delay" => to = "analyzing" /\ generation'.progress = 10
     /\ gPc' # "delay" =>
          /\ generation'.progress >= generation.progress
          /\ \/ to = from
             \/ <<from, to>> \in {<<"analyzing", "generating">>,
                                  <<"generating", "completed">>,
                                  <<"analyzing", "error">>,
                                  <<"generating", "error">>}
     /\ generation'.progress \in {0, 10, 30, 70, 100}
     /\ (gPc = "fetchCV" /\ gPc' # "delay2") =>
          /\ to = "error" /\ generation'.error # "<null>"
          /\ generation'.result.error = generation'.error
     /\ from = "error" => to \in {"error", "analyzing"}

C26_EveryVisitStartsProcess ==
  [][(gPc = "mount" /\ gInput.jobDescription /\ gInput.cvData)
       => (gPc' = "delay" /\ generation'.status = "analyzing")]_gVars

\* C28: in every list returned by the question generator the question ids
\* are pairwise distinct, for every combination of the hasPersonalInfo,
\* hasExperience, hasSkills, hasEducation flags and cvMatch on the fallback
\* path.
C28_DistinctQuestionIds ==
  qPc = "done" =>
    \A i, j \in 1..Len(qResult) : qResult[i].id = qResult[j].id => i = j

CVDataInit == GTIdle /\ CVIdle /\ QIdle /\ HIdle /\ GIdle /\ UIIdle

SpecCVData == CVDataInit /\ [][CVDataNext]_vars

\* The ids of a list are pairwise distinct.
DistinctIds(list) == \A i, j \in 1..Len(list) : list[i].id = list[j].id => i = j

\* An add of an entry whose id is on the list replaces that entry in place;
\* it leaves every other entry, and the order, unchanged.
ReplacesInPlace(before, after, entry) ==
  (\E i \in 1..Len(before) : before[i].id = entry.id) =>
    /\ Len(after) = Len(before)
    /\ \A i \in 1..Len(before) :
         after[i] = IF before[i].id = entry.id THEN entry ELSE before[i]

\* C29: starting from a CV with no entries, after any sequence of
\* addExperience and removeExperience actions (and likewise addEducation) no
\* two entries share an id: adding an entry whose id already exists replaces
\* that entry in place and leaves every other entry and the order unchanged,
\* and after removeExperience(id) no entry with that id remains.
C29_UniqueEntryIds ==
  /\ [](DistinctIds(cvData.experience) /\ DistinctIds(cvData.education))
  /\ [][/\ cvLast'.type = "addExperience" =>
             ReplacesInPlace(cvData.experience, cvData'.experience, cvLast'.payload)
        /\ cvLast'.type = "addEducation" =>
             ReplacesInPlace(cvData.education, cvData'.education, cvLast'.payload)
        /\ cvLast'.type = "removeExperience" =>
             \A i \in 1..Len(cvData'.experience) :
               cvData'.experience[i].id # cvLast'.payload]_cVars

\* addExperience has just replaced the first of two experience entries by
\* an entry of the same id and another text.
C29_Witness ==
  /\ cvLast = [type |-> "addExperience", payload |-> [id |-> "id-1", text |-> "second"]]
  /\ cvData.experience = <<[id |-> "id-1", text |-> "second"],
                           [id |-> "id-2", text |-> "first"]>>
  /\ Len(cvData.education) = 2

QAPageInit == GTIdle /\ CVIdle /\ QIdle /\ HIdle /\ GIdle /\ QAInit

SpecQA == QAPageInit /\ [][QANext]_vars

\* C30: each question receives at most maxAttempts (2) user answers: an
\* unclear first answer produces exactly one clarification prompt, the
\* second answer is accepted whatever its clarity, and once an answer is
\* accepted the flow moves on to a different unanswered question, so no
\* question is asked again after it was answered and the answered count
\* never exceeds the total number of questions.
C30_AtMostTwoAnswers ==
  /\ \A id \in QuestionIds :
       qa.answers[id] <= 2 /\ qa.prompts[id] <= 1 /\ qa.asks[id] <= 1
  /\ qa.answeredCount <= qa.totalQuestions

\* What the Q&A page wrote into the CV data state while processing answers.
WrittenByPage(cv) ==
  /\ "personal_info" \in qa.wrote => cv.defined /\ cv.personalInfo.fullName # ""
  /\ "skills" \in qa.wrote => cv.defined /\ cv.skills # <<>>

\* C27: the information the Q&A page has written into the CV data state
\* while processing answers (personal info, skills) and any uploaded raw CV
\* content are still present in the CV data state, and in the persisted CV
\* record, when the session completes and the user is navigated to the
\* generation page.
C27_AnswersKept ==
  qa.pc = "/generate" =>
    /\ WrittenByPage(cvData) /\ WrittenByPage(cvStored)
    /\ qa.uploaded # Undefined =>
         cvData.rawContent = qa.uploaded /\ cvStored.rawContent = qa.uploaded

====
